---- MODULE Spec2Model ----
(***************************************************************************)
(* CommitMux: the SQLite store (crates/store), the git ingester            *)
(* (crates/ingest) and the embedding backfill (crates/embed), as a state   *)
(* machine over the database tables.                                       *)
(*                                                                         *)
(* Representation of text.  A string is a sequence of runs <<ch, n>>       *)
(* (n >= 1 copies of the character ch, adjacent runs have different        *)
(* characters), so that the 500-character preview cut of the source is     *)
(* computed with its real constant.  Characters:                           *)
(*    "a", "b"   ASCII letters, 1 byte each                                *)
(*    "L"        a non-ASCII letter, 2 bytes in UTF-8                      *)
(*    " "        ASCII separator, 1 byte                                   *)
(*    "R"        U+FFFD REPLACEMENT CHARACTER, 3 bytes, a separator        *)
(*    "X"        (byte strings only) a byte that is not valid UTF-8        *)
(*    "(", "/"   ASCII punctuation, 1 byte each, separators                *)
(*    "Z"        the rest of a zstd frame read as text, opaque             *)
(* Option<T> is <<>> for None and <<x>> for Some(x).                       *)
(***************************************************************************)
EXTENDS Integers, Sequences, FiniteSets, TLC

\* ------------------------------------------------------------------ bounds
\* rowids of the commits table the model lets SQLite hand out
MaxRowid == 3
\* repo_id values the AUTOINCREMENT sequence of repos may reach
MaxRepoId == 2
\* SpecLimit: the rowids above the number of commits, which replacing a
\* commit uses up
MaxReplaced == 2
\* the embed calls that fail during one embed_pending
MaxFailed == 1
\* the rowids the commits table hands out to concurrent callers
MaxThreadRowid == 2
\* SpecResync: the rowids of the commits table, enough for every commit of
\* both repos
MaxSyncRowid == 5

\* ------------------------------------------------------- program constants
\* upsert_patch: patch.patch_preview.chars().take(500)
PREVIEW_CHARS == 500
\* sync_repo: text.floor_char_boundary(500)
PREVIEW_BYTES == 500
\* build_embed_doc: &preview[..1600]
EMBED_PREVIEW_BYTES == 1600
\* search: opts.limit.unwrap_or(50)
SEARCH_DEFAULT_LIMIT == 50
\* search_semantic: opts.limit.unwrap_or(10)
SEMANTIC_DEFAULT_K == 10

\* ------------------------------------------------------------------- text
None == <<>>
Some(x) == <<x>>
EmptyText == <<>>

\* n copies of the character c
Rep(c, n) == IF n = 0 THEN <<>> ELSE << <<c, n>> >>

\* UTF-8 width of a character in bytes
Width(c) == CASE c = "L" -> 2 [] c = "R" -> 3 [] c = "E" -> 4 [] OTHER -> 1

\* the characters the FTS5 unicode61 tokenizer keeps inside a token
IsTokenChar(c) == c \in {"a", "b", "L"}

RECURSIVE CharLen(_)
CharLen(t) == IF t = <<>> THEN 0 ELSE Head(t)[2] + CharLen(Tail(t))

\* str::len(): the length in bytes
RECURSIVE ByteLen(_)
ByteLen(t) == IF t = <<>> THEN 0 ELSE Width(Head(t)[1]) * Head(t)[2] + ByteLen(Tail(t))

\* s.chars().take(k).collect::<String>()
RECURSIVE TakeChars(_, _)
TakeChars(t, k) ==
    IF t = <<>> \/ k = 0 THEN <<>>
    ELSE LET r == Head(t) IN
         IF r[2] <= k THEN <<r>> \o TakeChars(Tail(t), k - r[2])
         ELSE << <<r[1], k>> >>

\* str::floor_char_boundary(k): the largest char boundary (a byte index) <= k
RECURSIVE floor_char_boundary(_, _)
floor_char_boundary(t, k) ==
    IF t = <<>> THEN 0
    ELSE LET r == Head(t)
             w == Width(r[1])
             full == w * r[2]
         IN IF full <= k THEN full + floor_char_boundary(Tail(t), k - full)
            ELSE w * (k \div w)

\* &s[..idx] for a byte index idx that lies on a char boundary
RECURSIVE SliceTo(_, _)
SliceTo(t, idx) ==
    IF t = <<>> \/ idx = 0 THEN <<>>
    ELSE LET r == Head(t)
             w == Width(r[1])
             full == w * r[2]
         IN IF full <= idx THEN <<r>> \o SliceTo(Tail(t), idx - full)
            ELSE Rep(r[1], idx \div w)

\* String::push_str on the run representation (adjacent equal runs merge)
Concat(s, t) ==
    IF s = <<>> THEN t
    ELSE IF t = <<>> THEN s
    ELSE IF s[Len(s)][1] = t[1][1]
         THEN SubSeq(s, 1, Len(s) - 1) \o << <<t[1][1], s[Len(s)][2] + t[1][2]>> >> \o Tail(t)
         ELSE s \o t

\* std::str::from_utf8(bytes).is_ok(), for raw bytes given as runs
IsValidUtf8(runs) == \A i \in 1..Len(runs) : runs[i][1] # "X"

\* the tokens of a text, in order: maximal runs of token characters
RECURSIVE Tokenize(_, _)
Tokenize(t, cur) ==
    IF t = <<>> THEN (IF cur = <<>> THEN <<>> ELSE <<cur>>)
    ELSE LET r == Head(t) IN
         IF IsTokenChar(r[1]) THEN Tokenize(Tail(t), Append(cur, r))
         ELSE (IF cur = <<>> THEN <<>> ELSE <<cur>>) \o Tokenize(Tail(t), <<>>)

Tokens(t) == Tokenize(t, <<>>)

\* ---------------------------------------------------------- byte strings
\* A Vec<u8> is [z, runs]: the bytes `runs`, inside z nested zstd frames
\* (z = 0: the bytes themselves).
\* String::as_bytes / a raw byte vector
Raw(runs) == [z |-> 0, runs |-> runs]

\* zstd::encode_all(bytes, 3): one more frame around the input
zstd_encode_all(bytes) == [z |-> bytes.z + 1, runs |-> bytes.runs]

\* zstd::decode_all(blob) is Ok exactly on a frame
zstd_decode_ok(blob) == blob.z >= 1

\* zstd::decode_all(blob): the content of the outermost frame
zstd_decode_all(blob) == [z |-> blob.z - 1, runs |-> blob.runs]

\* String::from_utf8_lossy over the run representation: every byte that is
\* not valid UTF-8 becomes U+FFFD
RECURSIVE LossyRuns(_)
LossyRuns(runs) ==
    IF runs = <<>> THEN <<>>
    ELSE Concat(<< <<IF Head(runs)[1] = "X" THEN "R" ELSE Head(runs)[1], Head(runs)[2]>> >>,
                LossyRuns(Tail(runs)))

\* String::from_utf8_lossy(bytes).into_owned().  The bytes of a zstd frame
\* start with the magic number 28 B5 2F FD, whose second and fourth bytes are
\* not valid UTF-8: the string starts "(", U+FFFD, "/", U+FFFD; the rest of
\* the frame is kept as the opaque character "Z".
from_utf8_lossy(bytes) ==
    IF bytes.z = 0 THEN LossyRuns(bytes.runs)
    ELSE << <<"(", 1>>, <<"R", 1>>, <<"/", 1>>, <<"R", 1>>, <<"Z", 1>> >>

\* ------------------------------------------------------------ the database
VARIABLES
    repos,              \* repos: repo_id -> row
    repo_seq,           \* sqlite_sequence of repos (AUTOINCREMENT)
    commits,            \* commits: rowid -> row; PRIMARY KEY (repo_id, sha)
    commit_files,       \* commit_files: a sequence of rows (no key)
    commit_patches,     \* commit_patches: the rows [repo_id, sha, patch_blob]
    ingest_state,       \* ingest_state: repo_id -> row
    commits_fts,        \* the FTS5 index: a set of <<rowid, column, position, token>>
    commit_embed_map,   \* commit_embed_map: embed_id -> [repo_id, sha]
    embed_seq,          \* sqlite_sequence of commit_embed_map (AUTOINCREMENT)
    commit_embeddings,  \* commit_embeddings (vec0): embed_id -> row
    last,               \* the last call made on the store and what it returned
    sync,               \* the sync_repo run in progress
    mutex,              \* SqliteStore.conn, the Mutex: the thread holding its guard
    calls               \* per thread, the store call it is executing

tables == <<repos, repo_seq, commits, commit_files, commit_patches, ingest_state,
            commits_fts, commit_embed_map, embed_seq, commit_embeddings>>
vars == <<repos, repo_seq, commits, commit_files, commit_patches, ingest_state,
          commits_fts, commit_embed_map, embed_seq, commit_embeddings, last, sync,
          mutex, calls>>

Max(S) == CHOOSE x \in S : \A y \in S : y <= x

\* the rowid SQLite gives a row inserted into a rowid table: one more than
\* the largest rowid in use (1 in an empty table)
NewRowid(table) == IF DOMAIN table = {} THEN 1 ELSE Max(DOMAIN table) + 1

\* f without the keys in K
Without(f, K) == [k \in DOMAIN f \ K |-> f[k]]

\* f with key k set to v
With(f, k, v) == [x \in DOMAIN f \cup {k} |-> IF x = k THEN v ELSE f[x]]

\* ------------------------------------------------------------------ FTS5
\* the index entries of one column value (NULL has none)
ColEntries(rowid, col, value) ==
    IF value = None THEN {}
    ELSE LET toks == Tokens(value[1]) IN
         { <<rowid, col, i, toks[i]>> : i \in 1..Len(toks) }

\* the index entries of a row (subject, body, patch_preview)
DocEntries(rowid, subject, body, patch_preview) ==
    ColEntries(rowid, "subject", subject) \cup ColEntries(rowid, "body", body)
        \cup ColEntries(rowid, "patch_preview", patch_preview)

\* INSERT INTO commits_fts(rowid, subject, body, patch_preview) VALUES (...)
fts_insert(fts, rowid, subject, body, patch_preview) ==
    fts \cup DocEntries(rowid, subject, body, patch_preview)

\* INSERT INTO commits_fts(commits_fts, rowid, ...) VALUES('delete', ...):
\* removes the entries the given values tokenize to
fts_delete(fts, rowid, subject, body, patch_preview) ==
    fts \ DocEntries(rowid, subject, body, patch_preview)

\* INSERT INTO commits_fts(commits_fts) VALUES('rebuild'): the index of the
\* content table as it is
fts_rebuild(content) ==
    UNION { DocEntries(r, Some(content[r].subject), content[r].body,
                       Some(content[r].patch_preview)) : r \in DOMAIN content }

\* the rowids the index answers for `commits_fts MATCH query`; a query is a
\* set of terms, all of which must occur in the row
fts_match(fts, query) ==
    { r \in { e[1] : e \in fts } :
        \A term \in query : \E e \in fts : e[1] = r /\ e[4] = term }

\* ------------------------------------------------------- repo management
\* SELECT repo_id FROM repos WHERE name = ?1
RepoIdsByName(name) == { id \in DOMAIN repos : repos[id].name = name }

\* add_repo on a repos table whose name column is not UNIQUE
add_repo_ok_not_unique(input) == TRUE

\* the INSERT of add_repo passes the UNIQUE constraint of repos.name
add_repo_ok(input) == RepoIdsByName(input.name) = {}

add_repo(input) ==
    LET repo_id == repo_seq + 1 IN
    /\ repos' = With(repos, repo_id,
                     [name |-> input.name,
                      author_filter |-> input.author_filter,
                      exclude_prefixes |-> input.exclude_prefixes])
    /\ repo_seq' = repo_id
    /\ UNCHANGED <<commits, commit_files, commit_patches, ingest_state, commits_fts,
                   commit_embed_map, embed_seq, commit_embeddings>>

\* SELECT ... FROM repos ORDER BY repo_id, the names
list_repos == { repos[id].name : id \in DOMAIN repos }

\* ---------------------------------------------------------- ingest writes
\* SELECT rowid FROM commits WHERE repo_id = ?1 AND sha = ?2
CommitRowids(repo_id, sha) ==
    { r \in DOMAIN commits : commits[r].repo_id = repo_id /\ commits[r].sha = sha }

\* upsert_commit without the insertion of the new row into the index
upsert_commit_unindexed(commit) ==
    LET existing == CommitRowids(commit.repo_id, commit.sha)
        fts1 == IF existing = {} THEN commits_fts
                ELSE LET old_rowid == CHOOSE r \in existing : TRUE IN
                     fts_delete(commits_fts, old_rowid,
                                Some(commits[old_rowid].subject),
                                commits[old_rowid].body,
                                Some(commits[old_rowid].patch_preview))
        new_rowid == NewRowid(commits)
        row == [repo_id |-> commit.repo_id, sha |-> commit.sha,
                author_email |-> commit.author_email,
                author_time |-> commit.author_time,
                subject |-> commit.subject, body |-> commit.body,
                patch_preview |-> EmptyText]
    IN
    /\ commits' = With(Without(commits, existing), new_rowid, row)
    /\ commits_fts' = fts1
    /\ UNCHANGED <<repos, repo_seq, commit_files, commit_patches, ingest_state,
                   commit_embed_map, embed_seq, commit_embeddings>>

\* upsert_commit without the removal of the old row's index entries
upsert_commit_keeps_index(commit) ==
    LET existing == CommitRowids(commit.repo_id, commit.sha)
        new_rowid == NewRowid(commits)
        row == [repo_id |-> commit.repo_id, sha |-> commit.sha,
                author_email |-> commit.author_email,
                author_time |-> commit.author_time,
                subject |-> commit.subject, body |-> commit.body,
                patch_preview |-> EmptyText]
    IN
    /\ commits' = With(Without(commits, existing), new_rowid, row)
    /\ commits_fts' = fts_insert(commits_fts, new_rowid, Some(commit.subject),
                                 commit.body, Some(EmptyText))
    /\ UNCHANGED <<repos, repo_seq, commit_files, commit_patches, ingest_state,
                   commit_embed_map, embed_seq, commit_embeddings>>

upsert_commit(commit) ==
    LET existing == CommitRowids(commit.repo_id, commit.sha)
        fts1 == IF existing = {} THEN commits_fts
                ELSE LET old_rowid == CHOOSE r \in existing : TRUE IN
                     fts_delete(commits_fts, old_rowid,
                                Some(commits[old_rowid].subject),
                                commits[old_rowid].body,
                                Some(commits[old_rowid].patch_preview))
        new_rowid == NewRowid(commits)
        row == [repo_id |-> commit.repo_id, sha |-> commit.sha,
                author_email |-> commit.author_email,
                author_time |-> commit.author_time,
                subject |-> commit.subject, body |-> commit.body,
                patch_preview |-> EmptyText]
    IN
    /\ commits' = With(Without(commits, existing), new_rowid, row)
    /\ commits_fts' = fts_insert(fts1, new_rowid, Some(commit.subject), commit.body,
                                 Some(EmptyText))
    /\ UNCHANGED <<repos, repo_seq, commit_files, commit_patches, ingest_state,
                   commit_embed_map, embed_seq, commit_embeddings>>

upsert_commit_files(files) ==
    /\ commit_files' =
         IF files = <<>> THEN commit_files
         ELSE LET first == files[1] IN
              SelectSeq(commit_files,
                        LAMBDA f : ~(f.repo_id = first.repo_id /\ f.sha = first.sha))
                  \o files
    /\ UNCHANGED <<repos, repo_seq, commits, commit_patches, ingest_state, commits_fts,
                   commit_embed_map, embed_seq, commit_embeddings>>

\* upsert_patch whose index removal is given the new preview, not the old one
upsert_patch_stale_delete(patch) ==
    LET compressed == zstd_encode_all(patch.patch_blob)
        preview == TakeChars(patch.patch_preview, PREVIEW_CHARS)
        row == CommitRowids(patch.repo_id, patch.sha)
    IN
    /\ commit_patches' =
         { p \in commit_patches : ~(p.repo_id = patch.repo_id /\ p.sha = patch.sha) }
             \cup {[repo_id |-> patch.repo_id, sha |-> patch.sha,
                    patch_blob |-> compressed]}
    /\ IF row = {} THEN UNCHANGED <<commits, commits_fts>>
       ELSE LET rowid == CHOOSE r \in row : TRUE
                subject == commits[rowid].subject
                body == commits[rowid].body
                fts1 == fts_delete(commits_fts, rowid, Some(subject), body, Some(preview))
            IN /\ commits' = [commits EXCEPT ![rowid].patch_preview = preview]
               /\ commits_fts' = fts_insert(fts1, rowid, Some(subject), body, Some(preview))
    /\ UNCHANGED <<repos, repo_seq, commit_files, ingest_state,
                   commit_embed_map, embed_seq, commit_embeddings>>

\* upsert_patch that cuts the preview at 500 bytes, not 500 characters
upsert_patch_bytes(patch) ==
    LET compressed == zstd_encode_all(patch.patch_blob)
        preview == SliceTo(patch.patch_preview,
                           floor_char_boundary(patch.patch_preview, PREVIEW_CHARS))
        row == CommitRowids(patch.repo_id, patch.sha)
    IN
    /\ commit_patches' =
         { p \in commit_patches : ~(p.repo_id = patch.repo_id /\ p.sha = patch.sha) }
             \cup {[repo_id |-> patch.repo_id, sha |-> patch.sha,
                    patch_blob |-> compressed]}
    /\ IF row = {} THEN UNCHANGED <<commits, commits_fts>>
       ELSE LET rowid == CHOOSE r \in row : TRUE
                subject == commits[rowid].subject
                body == commits[rowid].body
                old_preview == Some(commits[rowid].patch_preview)
                fts1 == fts_delete(commits_fts, rowid, Some(subject), body, old_preview)
            IN /\ commits' = [commits EXCEPT ![rowid].patch_preview = preview]
               /\ commits_fts' = fts_insert(fts1, rowid, Some(subject), body, Some(preview))
    /\ UNCHANGED <<repos, repo_seq, commit_files, ingest_state,
                   commit_embed_map, embed_seq, commit_embeddings>>

upsert_patch(patch) ==
    LET compressed == zstd_encode_all(patch.patch_blob)
        preview == TakeChars(patch.patch_preview, PREVIEW_CHARS)
        row == CommitRowids(patch.repo_id, patch.sha)
    IN
    /\ commit_patches' =
         { p \in commit_patches : ~(p.repo_id = patch.repo_id /\ p.sha = patch.sha) }
             \cup {[repo_id |-> patch.repo_id, sha |-> patch.sha,
                    patch_blob |-> compressed]}
    /\ IF row = {} THEN UNCHANGED <<commits, commits_fts>>
       ELSE LET rowid == CHOOSE r \in row : TRUE
                subject == commits[rowid].subject
                body == commits[rowid].body
                old_preview == Some(commits[rowid].patch_preview)
                fts1 == fts_delete(commits_fts, rowid, Some(subject), body, old_preview)
            IN /\ commits' = [commits EXCEPT ![rowid].patch_preview = preview]
               /\ commits_fts' = fts_insert(fts1, rowid, Some(subject), body, Some(preview))
    /\ UNCHANGED <<repos, repo_seq, commit_files, ingest_state,
                   commit_embed_map, embed_seq, commit_embeddings>>

\* INSERT OR REPLACE INTO ingest_state
update_ingest_state(state) ==
    /\ ingest_state' = With(ingest_state, state.repo_id,
                            [last_synced_at |-> state.last_synced_at,
                             last_synced_sha |-> state.last_synced_sha,
                             last_error |-> state.last_error])
    /\ UNCHANGED <<repos, repo_seq, commits, commit_files, commit_patches, commits_fts,
                   commit_embed_map, embed_seq, commit_embeddings>>

remove_repo_ok(name) == RepoIdsByName(name) # {}

\* remove_repo whose lookup is not .optional(): no row is a Sqlite error
remove_repo_err_no_rows(name) == "Sqlite"

\* the error remove_repo returns when the lookup finds no row
remove_repo_err(name) == "NotFound"

\* remove_repo without the deletion of the repo's commits
remove_repo_keeps_commits(name) ==
    LET repo_id == CHOOSE id \in RepoIdsByName(name) : TRUE IN
    /\ commit_patches' = { p \in commit_patches : p.repo_id # repo_id }
    /\ commit_files' = SelectSeq(commit_files, LAMBDA f : f.repo_id # repo_id)
    /\ ingest_state' = Without(ingest_state, {repo_id})
    /\ commits_fts' = fts_rebuild(commits)
    /\ repos' = Without(repos, {repo_id})
    /\ UNCHANGED <<commits, repo_seq, commit_embed_map, embed_seq, commit_embeddings>>

remove_repo(name) ==
    LET repo_id == CHOOSE id \in RepoIdsByName(name) : TRUE
        commits1 == Without(commits, { r \in DOMAIN commits : commits[r].repo_id = repo_id })
    IN
    /\ commit_patches' = { p \in commit_patches : p.repo_id # repo_id }
    /\ commit_files' = SelectSeq(commit_files, LAMBDA f : f.repo_id # repo_id)
    /\ ingest_state' = Without(ingest_state, {repo_id})
    /\ commits' = commits1
    /\ commits_fts' = fts_rebuild(commits1)
    /\ repos' = Without(repos, {repo_id})
    /\ UNCHANGED <<repo_seq, commit_embed_map, embed_seq, commit_embeddings>>

\* a commit_exists that finds no commit
commit_exists_never(repo_id, sha) == FALSE

\* SELECT COUNT(*) FROM commits WHERE repo_id = ?1 AND sha = ?2, > 0
commit_exists(repo_id, sha) == CommitRowids(repo_id, sha) # {}

\* SELECT COUNT(*) FROM commits WHERE repo_id = ?1
count_commits_for_repo(repo_id) ==
    Cardinality({ r \in DOMAIN commits : commits[r].repo_id = repo_id })

\* ---------------------------------------------------------------- queries
\* SQL `x LIKE y || '%'` and str::starts_with on sequences of characters
IsPrefix(p, x) == Len(p) <= Len(x) /\ SubSeq(x, 1, Len(p)) = p

\* x contains y
IsSubstring(y, x) ==
    \E i \in 0..(Len(x) - Len(y)) : SubSeq(x, i + 1, i + Len(y)) = y

\* the characters of a path segment of the model
SegmentChars(u) ==
    CASE u = "src/" -> 4 [] u = "docs/" -> 5 [] u = "vendor/" -> 7 [] OTHER -> 1

\* SQL `text LIKE pat` without ESCAPE: % stands for any characters, _ for
\* any one character, the others for themselves (ASCII letters in either
\* case: the paths of the model are in lower case)
RECURSIVE like(_, _)
like(text, pat) ==
    IF pat = <<>> THEN text = <<>>
    ELSE IF Head(pat) = "%"
    THEN \E k \in 0..Len(text) : like(SubSeq(text, k + 1, Len(text)), Tail(pat))
    ELSE /\ text # <<>>
         /\ IF Head(pat) = "_" THEN SegmentChars(Head(text)) = 1
                               ELSE Head(text) = Head(pat)
         /\ like(Tail(text), Tail(pat))

\* format!("%{}%", pf)
like_pat(pf) == <<"%">> \o pf \o <<"%">>

\* r comes before o under ORDER BY c.author_time DESC; rows of equal
\* author_time come in the order of the scan, by rowid upwards or downwards
ComesBefore(r, o, tie) ==
    \/ commits[r].author_time > commits[o].author_time
    \/ /\ commits[r].author_time = commits[o].author_time
       /\ IF tie = "asc" THEN r <= o ELSE r >= o

\* a sorted sequence with one more row in its place
InsertRow(sorted, r, tie) ==
    LET k == Cardinality({ i \in 1..Len(sorted) : ComesBefore(sorted[i], r, tie) })
    IN SubSeq(sorted, 1, k) \o <<r>> \o SubSeq(sorted, k + 1, Len(sorted))

\* the rows among `rowids` with rowid <= n, sorted
RECURSIVE SortRowsUpTo(_, _, _)
SortRowsUpTo(rowids, n, tie) ==
    IF n = 0 THEN <<>>
    ELSE IF n \in rowids THEN InsertRow(SortRowsUpTo(rowids, n - 1, tie), n, tie)
    ELSE SortRowsUpTo(rowids, n - 1, tie)

\* the rows `rowids` of commits in the order of ORDER BY c.author_time DESC
OrderByAuthorTimeDesc(rowids, tie) ==
    SortRowsUpTo(rowids, NewRowid(commits) - 1, tie)

TieOrders == {"asc", "desc"}

Take(seq, n) == SubSeq(seq, 1, IF n < Len(seq) THEN n ELSE Len(seq))

\* the paths stored for a commit
FilePaths(repo_id, sha) ==
    { commit_files[i].path : i \in { j \in 1..Len(commit_files) :
        commit_files[j].repo_id = repo_id /\ commit_files[j].sha = sha } }

\* The statement search() builds: the positions of the numbered placeholders
\* and the values bound, all_params[k] being bound to ?k.
search_sql(query, opts) ==
    LET limit == IF opts.limit = None THEN SEARCH_DEFAULT_LIMIT ELSE opts.limit[1]
        since_ph == 2
        param_idx1 == IF opts.since # None THEN 3 ELSE 2
        nrepos == IF opts.repos = None THEN 0 ELSE Len(opts.repos[1])
        repo_ph == [i \in 1..nrepos |-> param_idx1 + (i - 1)]
        param_idx2 == param_idx1 + nrepos
        bind_vals == (IF opts.since # None THEN <<opts.since[1]>> ELSE <<>>)
                     \o (IF opts.repos # None THEN opts.repos[1] ELSE <<>>)
                     \o <<limit>>
    IN [has_since |-> opts.since # None, since_ph |-> since_ph,
        has_repos |-> opts.repos # None, repo_ph |-> repo_ph,
        limit_ph |-> param_idx2,
        all_params |-> <<query>> \o bind_vals]

\* the rows the statement of search() selects, before ORDER BY and LIMIT
search_rows(query, opts) ==
    LET q == search_sql(query, opts) IN
    { r \in fts_match(commits_fts, q.all_params[1]) \cap DOMAIN commits :
        /\ commits[r].repo_id \in DOMAIN repos
        /\ q.has_since => commits[r].author_time >= q.all_params[q.since_ph]
        /\ q.has_repos =>
             \E i \in DOMAIN q.repo_ph :
                 repos[commits[r].repo_id].name = q.all_params[q.repo_ph[i]] }

\* search(query, opts), rows of equal author_time ordered as `tie` says
search(query, opts, tie) ==
    LET q == search_sql(query, opts)
        order == OrderByAuthorTimeDesc(search_rows(query, opts), tie)
        rows == Take(order, q.all_params[q.limit_ph])
        keep(r) == opts.paths = None
                   \/ \E i \in 1..Len(opts.paths[1]) :
                        \E path \in FilePaths(commits[r].repo_id, commits[r].sha) :
                            like(path, like_pat(opts.paths[1][i]))
        kept == SelectSeq(rows, keep)
    IN [i \in 1..Len(kept) |->
          [repo |-> repos[commits[kept[i]].repo_id].name,
           sha |-> commits[kept[i]].sha,
           subject |-> commits[kept[i]].subject,
           date |-> commits[kept[i]].author_time,
           matched_paths |-> FilePaths(commits[kept[i]].repo_id, commits[kept[i]].sha),
           patch_excerpt |-> TakeChars(commits[kept[i]].patch_preview, 300)]]

\* the rows get_commit's statement selects
get_commit_rows(repo_name, sha_prefix) ==
    { r \in DOMAIN commits :
        /\ commits[r].repo_id \in RepoIdsByName(repo_name)
        /\ IsPrefix(sha_prefix, commits[r].sha) }

\* the rows get_patch's statement selects
get_patch_rows(repo_name, sha) ==
    { p \in commit_patches : p.repo_id \in RepoIdsByName(repo_name) /\ p.sha = sha }

\* get_patch that reads the stored bytes as text without decompressing them
get_patch_stored_bytes(repo_name, sha, max_bytes) ==
    LET rows == get_patch_rows(repo_name, sha) IN
    IF rows = {} THEN [kind |-> "None"]
    ELSE [kind |-> "Some",
          patch_text |-> from_utf8_lossy((CHOOSE p \in rows : TRUE).patch_blob)]

\* get_patch(repo_name, sha, max_bytes): "None", "Err" or [patch_text]
get_patch(repo_name, sha, max_bytes) ==
    LET rows == get_patch_rows(repo_name, sha) IN
    IF rows = {} THEN [kind |-> "None"]
    ELSE LET compressed == (CHOOSE p \in rows : TRUE).patch_blob IN
         IF ~zstd_decode_ok(compressed) THEN [kind |-> "Err"]
         ELSE LET decompressed == zstd_decode_all(compressed)
                  patch_text == from_utf8_lossy(decompressed)
              IN [kind |-> "Some",
                  patch_text |->
                     IF max_bytes # None /\ ByteLen(patch_text) > max_bytes[1]
                     THEN TakeChars(patch_text, max_bytes[1])
                     ELSE patch_text]

\* format_iso_date(ts): the fields of "YYYY-MM-DDTHH:MM:SSZ"
format_iso_date(ts) ==
    LET secs == IF ts < 0 THEN 0 ELSE ts
        days_since_epoch == secs \div 86400
        time_of_day == secs % 86400
        z == days_since_epoch + 719468
        era == (IF z >= 0 THEN z ELSE z - 146096) \div 146097
        doe == z - era * 146097
        yoe == (doe - doe \div 1460 + doe \div 36524 - doe \div 146096) \div 365
        y0 == yoe + era * 400
        doy == doe - (365 * yoe + yoe \div 4 - yoe \div 100)
        mp == (5 * doy + 2) \div 153
        d == doy - (153 * mp + 2) \div 5 + 1
        m == IF mp < 10 THEN mp + 3 ELSE mp - 9
        y == IF m <= 2 THEN y0 + 1 ELSE y0
    IN [y |-> y, m |-> m, d |-> d, hours |-> time_of_day \div 3600,
        minutes |-> (time_of_day % 3600) \div 60, seconds |-> time_of_day % 60]

\* get_commit(repo_name, sha_prefix): None, or the detail of the first row
get_commit(repo_name, sha_prefix, tie) ==
    LET rows == get_commit_rows(repo_name, sha_prefix) IN
    IF rows = {} THEN None
    ELSE LET r == OrderByAuthorTimeDesc(rows, tie)[1] IN
         Some([repo |-> repo_name, sha |-> commits[r].sha,
               subject |-> commits[r].subject, body |-> commits[r].body,
               date |-> format_iso_date(commits[r].author_time),
               changed_files |-> FilePaths(commits[r].repo_id, commits[r].sha)])

\* -------------------------------------------------------------- embeddings
\* SELECT embed_id FROM commit_embed_map WHERE repo_id = ?1 AND sha = ?2
EmbedIds(repo_id, sha) ==
    { e \in DOMAIN commit_embed_map :
        commit_embed_map[e].repo_id = repo_id /\ commit_embed_map[e].sha = sha }

\* store_embedding that inserts a key map row on every call
store_embedding_new_key(repo_id, sha, subject, repo_name, author_time, patch_preview, embedding) ==
    LET embed_id == embed_seq + 1
        row == [embedding |-> embedding, sha |-> sha, subject |-> subject,
                repo_name |-> repo_name, author_time |-> author_time,
                patch_preview |-> patch_preview]
    IN
    /\ commit_embed_map' = With(commit_embed_map, embed_id,
                                [repo_id |-> repo_id, sha |-> sha])
    /\ embed_seq' = embed_id
    /\ commit_embeddings' = With(commit_embeddings, embed_id, row)
    /\ UNCHANGED <<repos, repo_seq, commits, commit_files, commit_patches, ingest_state,
                   commits_fts>>

store_embedding(repo_id, sha, subject, repo_name, author_time, patch_preview, embedding) ==
    LET known == EmbedIds(repo_id, sha)
        embed_id == IF known = {} THEN embed_seq + 1 ELSE CHOOSE e \in known : TRUE
        row == [embedding |-> embedding, sha |-> sha, subject |-> subject,
                repo_name |-> repo_name, author_time |-> author_time,
                patch_preview |-> patch_preview]
    IN
    /\ commit_embed_map' = IF known = {}
                           THEN With(commit_embed_map, embed_id,
                                     [repo_id |-> repo_id, sha |-> sha])
                           ELSE commit_embed_map
    /\ embed_seq' = IF known = {} THEN embed_id ELSE embed_seq
    /\ commit_embeddings' = With(Without(commit_embeddings, {embed_id}), embed_id, row)
    /\ UNCHANGED <<repos, repo_seq, commits, commit_files, commit_patches, ingest_state,
                   commits_fts>>

\* the distance of two embeddings (a vector is given by one coordinate)
Distance(u, v) == IF u >= v THEN u - v ELSE v - u

\* the rows of commit_embeddings by ascending distance to `embedding`
RECURSIVE OrderByDistance(_, _, _)
OrderByDistance(ids, embedding, tie) ==
    IF ids = {} THEN <<>>
    ELSE LET d(e) == Distance(commit_embeddings[e].embedding, embedding)
             first == CHOOSE e \in ids : \A o \in ids :
                          \/ d(e) < d(o)
                          \/ d(e) = d(o) /\ (IF tie = "asc" THEN e <= o ELSE e >= o)
         IN <<first>> \o OrderByDistance(ids \ {first}, embedding, tie)

\* search_semantic(embedding, opts): the k nearest rows of the vec0 table,
\* of which the two OR-conditions of the statement keep some.  ?3 is the JSON
\* text of opts.repos ("[]" when absent), never the empty string, so the first
\* condition is `ce.repo_name IN (the list)`.
search_semantic(embedding, opts, tie) ==
    LET limit == IF opts.limit = None THEN SEMANTIC_DEFAULT_K ELSE opts.limit[1]
        repos_json == IF opts.repos = None THEN <<>> ELSE opts.repos[1]
        since == IF opts.since = None THEN 0 ELSE opts.since[1]
        knn == Take(OrderByDistance(DOMAIN commit_embeddings, embedding, tie), limit)
        keep(e) == /\ \E i \in 1..Len(repos_json) :
                         commit_embeddings[e].repo_name = repos_json[i]
                   /\ since = 0 \/ commit_embeddings[e].author_time >= since
        kept == SelectSeq(knn, keep)
    IN [i \in 1..Len(kept) |->
          [repo |-> commit_embeddings[kept[i]].repo_name,
           sha |-> commit_embeddings[kept[i]].sha,
           subject |-> commit_embeddings[kept[i]].subject,
           date |-> commit_embeddings[kept[i]].author_time,
           matched_paths |-> {},
           patch_excerpt |-> IF commit_embeddings[kept[i]].patch_preview = None
                             THEN EmptyText
                             ELSE commit_embeddings[kept[i]].patch_preview[1]]]

\* ------------------------------------------------------------------ inputs
RepoNames == {"alpha", "beta"}

RepoInputs == [name : RepoNames, author_filter : {None}, exclude_prefixes : {<<>>}]

\* the repo_id values callers pass
RepoIds == {1, 2}

\* commit ids and the prefixes asked of get_commit
Sha1 == <<"c", "1">>
Sha2 == <<"c", "2">>
Sha3 == <<"c", "3">>
ShaPrefixes == { <<>>, <<"c">>, Sha1, Sha2, <<"d">> }

T_a == Rep("a", 1)
T_b == Rep("b", 1)
T_a_b == << <<"a", 1>>, <<" ", 1>>, <<"b", 1>> >>
\* 501 one-byte letters: longer than the preview
T_long == Rep("b", 501)
\* 300 two-byte letters: 300 characters, 600 bytes
T_wide == Rep("L", 300)
\* 300 two-byte letters and 300 one-byte letters: 600 characters, 900 bytes
T_mixed == << <<"L", 300>>, <<"a", 300>> >>
\* a byte that is not UTF-8 between two letters
B_invalid == << <<"a", 1>>, <<"X", 1>>, <<"b", 1>> >>

\* the terms asked of search
Terms == { T_a, T_b, Rep("b", 500), T_long, Rep("L", 250),
           << <<"L", 300>>, <<"a", 200>> >>, T_mixed }

\* paths: a path is the sequence of its segments, a directory's with its "/"
P_src_a == <<"src/", "a">>
P_vendor_x == <<"vendor/", "x">>
P_docs_r == <<"docs/", "r">>
P_src_b == <<"src/", "b">>

\* (subject, body, author_time) of the commits given to upsert_commit
CommitContents ==
    { [subject |-> T_a, body |-> None, author_time |-> 1],
      [subject |-> T_a_b, body |-> Some(T_b), author_time |-> 2] }

MakeCommits(ids, shas, contents) ==
    { [repo_id |-> id, sha |-> sha, author_email |-> "alice",
       author_time |-> c.author_time, subject |-> c.subject, body |-> c.body] :
      id \in ids, sha \in shas, c \in contents }

\* (patch_blob, patch_preview) of the patches given to upsert_patch: the
\* preview is a text of the caller's choice, as in test_search_fts
PatchContents ==
    { [patch_blob |-> Raw(T_mixed), patch_preview |-> T_mixed],
      [patch_blob |-> Raw(B_invalid), patch_preview |-> T_long] }

MakePatches(ids, shas, contents) ==
    { [repo_id |-> id, sha |-> sha, patch_blob |-> c.patch_blob,
       patch_preview |-> c.patch_preview] :
      id \in ids, sha \in shas, c \in contents }

\* ------------------------------------------------------------------ actions
NoSync == [pc |-> "idle"]

\* the threads sharing one SqliteStore
Threads == {1, 2}

NoCall == [op |-> "idle"]

Init ==
    /\ repos = <<>>
    /\ repo_seq = 0
    /\ commits = <<>>
    /\ commit_files = <<>>
    /\ commit_patches = {}
    /\ ingest_state = <<>>
    /\ commits_fts = {}
    /\ commit_embed_map = <<>>
    /\ embed_seq = 0
    /\ commit_embeddings = <<>>
    /\ last = [op |-> "open"]
    /\ sync = NoSync
    /\ mutex = None
    /\ calls = [t \in Threads |-> NoCall]

\* the same call as the one before it
Again(op, arg) == last.op = op /\ last.arg = arg

CallAddRepo(inputs) ==
    \E input \in inputs :
        /\ repo_seq < MaxRepoId
        /\ IF add_repo_ok(input)
           THEN /\ add_repo(input)
                /\ last' = [op |-> "add_repo", arg |-> input, ok |-> TRUE,
                            again |-> FALSE, repo_id |-> repo_seq + 1]
           ELSE /\ UNCHANGED tables
                /\ last' = [op |-> "add_repo", arg |-> input, ok |-> FALSE,
                            again |-> Again("add_repo", input)]
        /\ UNCHANGED <<sync, mutex, calls>>

CallRemoveRepo(names) ==
    \E name \in names :
        /\ IF remove_repo_ok(name)
           THEN /\ remove_repo(name)
                /\ last' = [op |-> "remove_repo", arg |-> name, ok |-> TRUE,
                            again |-> FALSE,
                            repo_id |-> CHOOSE id \in RepoIdsByName(name) : TRUE]
           ELSE /\ UNCHANGED tables
                /\ last' = [op |-> "remove_repo", arg |-> name, ok |-> FALSE,
                            again |-> Again("remove_repo", name),
                            err |-> remove_repo_err(name)]
        /\ UNCHANGED <<sync, mutex, calls>>

CallUpsertCommit(inputs, max_rowid) ==
    \E commit \in inputs :
        /\ NewRowid(commits) <= max_rowid
        /\ upsert_commit(commit)
        /\ last' = [op |-> "upsert_commit", arg |-> commit, ok |-> TRUE,
                    again |-> Again("upsert_commit", commit)]
        /\ UNCHANGED <<sync, mutex, calls>>

CallUpsertCommitFiles(inputs) ==
    \E files \in inputs :
        /\ upsert_commit_files(files)
        /\ last' = [op |-> "upsert_commit_files", arg |-> files, ok |-> TRUE,
                    again |-> Again("upsert_commit_files", files)]
        /\ UNCHANGED <<sync, mutex, calls>>

CallUpsertPatch(inputs) ==
    \E patch \in inputs :
        /\ upsert_patch(patch)
        /\ last' = [op |-> "upsert_patch", arg |-> patch, ok |-> TRUE,
                    again |-> Again("upsert_patch", patch)]
        /\ UNCHANGED <<sync, mutex, calls>>

CallUpdateIngestState(inputs) ==
    \E state \in inputs :
        /\ update_ingest_state(state)
        /\ last' = [op |-> "update_ingest_state", arg |-> state, ok |-> TRUE,
                    again |-> Again("update_ingest_state", state)]
        /\ UNCHANGED <<sync, mutex, calls>>

\* `before` is the embed_id the key had when the call was made
CallStoreEmbedding(inputs) ==
    \E e \in inputs :
        /\ store_embedding(e.repo_id, e.sha, e.subject, e.repo_name, e.author_time,
                           e.patch_preview, e.embedding)
        /\ last' = [op |-> "store_embedding", arg |-> e, ok |-> TRUE,
                    again |-> last.op = "store_embedding"
                              /\ last.arg.repo_id = e.repo_id /\ last.arg.sha = e.sha,
                    before |-> EmbedIds(e.repo_id, e.sha)]
        /\ UNCHANGED <<sync, mutex, calls>>

\* ---------------------------------------------------------------------------
\* Spec: add_repo, remove_repo, upsert_commit and upsert_patch in any order,
\* on two repos with one commit id each.
AddRepo == CallAddRepo(RepoInputs)
RemoveRepo == CallRemoveRepo(RepoNames)
UpsertCommit == CallUpsertCommit(MakeCommits(RepoIds, {Sha1}, CommitContents), MaxRowid)
UpsertPatch == CallUpsertPatch(MakePatches(RepoIds, {Sha1}, PatchContents))

Next == AddRepo \/ RemoveRepo \/ UpsertCommit \/ UpsertPatch

Spec == Init /\ [][Next]_vars

\* ---------------------------------------------------------------------------
\* Properties of Spec

\* SearchOpts::default()
DefaultOpts == [since |-> None, repos |-> None, paths |-> None, limit |-> None]

\* the rowids the index holds entries for
FtsRowids == { e[1] : e \in commits_fts }

\* the entries the index holds for a rowid
FtsEntriesOf(rowid) == { e \in commits_fts : e[1] = rowid }

\* the entries a commits row should have in the index
RowEntries(r) ==
    DocEntries(r, Some(commits[r].subject), commits[r].body,
               Some(commits[r].patch_preview))

\* C1: after any sequence of add_repo, upsert_commit, upsert_patch and
\* remove_repo, every rowid of the FTS index is the rowid of a commits row (no
\* orphan entry), and the entries indexed under it are exactly those of that
\* row's current subject, body and patch_preview (no stale value).
C1_FtsMatchesCommits ==
    /\ FtsRowids \subseteq DOMAIN commits
    /\ \A r \in DOMAIN commits : FtsEntriesOf(r) = RowEntries(r)

\* a commit that was replaced (its rowid is not the first), then given a
\* patch whose preview replaced an earlier one, is indexed by the new preview
C1_Witness ==
    /\ last.op = "upsert_patch"
    /\ last.arg.patch_preview = T_long
    /\ \E r \in DOMAIN commits :
          /\ r >= 2
          /\ commits[r].repo_id = last.arg.repo_id
          /\ commits[r].patch_preview = Rep("b", PREVIEW_CHARS)
          /\ <<r, "patch_preview", 1, Rep("b", PREVIEW_CHARS)>> \in commits_fts
          /\ \E p \in commit_patches :
                p.repo_id = last.arg.repo_id /\ p.patch_blob.runs = B_invalid

\* C3: after upsert_commit(c), however many times it was applied in a row and
\* whatever the store held before, commits has exactly one row for
\* (c.repo_id, c.sha), holding c's values, and the FTS index has exactly one
\* document for it: the one of that row, with no document left for a rowid
\* that is no longer a commits row.
C3_UpsertCommitIdempotent ==
    last.op = "upsert_commit" =>
        LET c == last.arg
            rows == CommitRowids(c.repo_id, c.sha)
        IN /\ Cardinality(rows) = 1
           /\ \A r \in rows :
                 /\ commits[r].subject = c.subject
                 /\ commits[r].body = c.body
                 /\ commits[r].author_time = c.author_time
           /\ Cardinality(FtsRowids \cap rows) = 1
           /\ Cardinality(FtsRowids) = Cardinality(DOMAIN commits)

\* the same upsert_commit twice in a row, on a store holding another commit
C3_Witness ==
    /\ last.op = "upsert_commit"
    /\ last.again
    /\ Cardinality(DOMAIN commits) = 2

\* C4: after upsert_patch(p), repeated or not, commit_patches has exactly one
\* row for (p.repo_id, p.sha), and when the commit row exists its
\* patch_preview is the first 500 characters of p.patch_preview.
C4_UpsertPatchIdempotent ==
    last.op = "upsert_patch" =>
        LET p == last.arg IN
        /\ Cardinality({ x \in commit_patches :
                           x.repo_id = p.repo_id /\ x.sha = p.sha }) = 1
        /\ \A r \in CommitRowids(p.repo_id, p.sha) :
              /\ commits[r].patch_preview = TakeChars(p.patch_preview, PREVIEW_CHARS)
              /\ CharLen(commits[r].patch_preview) <= PREVIEW_CHARS

\* the same upsert_patch twice in a row, of a preview of 600 characters in
\* 900 bytes, on a commit that exists
C4_Witness ==
    /\ last.op = "upsert_patch"
    /\ last.again
    /\ last.arg.patch_preview = T_mixed
    /\ \E r \in CommitRowids(last.arg.repo_id, last.arg.sha) :
          CharLen(commits[r].patch_preview) = PREVIEW_CHARS

\* C6: after upsert_patch with a patch_blob that is a non-empty valid UTF-8
\* text T, for a registered repo, get_patch(repo_name, sha, None) returns
\* patch_text = T.
C6_PatchRoundTrip ==
    (/\ last.op = "upsert_patch"
     /\ last.arg.repo_id \in DOMAIN repos
     /\ last.arg.patch_blob.z = 0
     /\ last.arg.patch_blob.runs # <<>>
     /\ IsValidUtf8(last.arg.patch_blob.runs))
    => get_patch(repos[last.arg.repo_id].name, last.arg.sha, None)
         = [kind |-> "Some", patch_text |-> last.arg.patch_blob.runs]

\* a valid multi-byte text was stored over an earlier blob of the same key
C6_Witness ==
    /\ last.op = "upsert_patch"
    /\ last.arg.repo_id \in DOMAIN repos
    /\ last.arg.patch_blob = Raw(T_mixed)
    /\ get_patch(repos[last.arg.repo_id].name, last.arg.sha, None).kind = "Some"
    /\ CommitRowids(last.arg.repo_id, last.arg.sha) # {}

\* C9: after a successful remove_repo(name), list_repos() does not contain
\* name, get_commit(name, prefix) is None for every prefix,
\* count_commits_for_repo of the old repo_id is 0, and no search returns a
\* result whose repo is name.
C9_RemoveRepoHides ==
    (last.op = "remove_repo" /\ last.ok) =>
        /\ last.arg \notin list_repos
        /\ \A prefix \in ShaPrefixes : \A tie \in TieOrders :
              get_commit(last.arg, prefix, tie) = None
        /\ count_commits_for_repo(last.repo_id) = 0
        /\ \A term \in Terms : \A tie \in TieOrders :
              LET results == search({term}, DefaultOpts, tie) IN
              \A i \in 1..Len(results) : results[i].repo # last.arg

\* a repo with a commit was removed while another repo's commit, matching the
\* same term, stays findable
C9_Witness ==
    /\ last.op = "remove_repo"
    /\ last.ok
    /\ Len(search({T_a}, DefaultOpts, "asc")) = 1
    /\ NewRowid(commits) >= 3

\* C11: remove_repo(name) for a name that is not registered returns a NotFound
\* error and leaves every table unchanged.
C11_RemoveRepoNotFound ==
    [][ (last'.op = "remove_repo" /\ RepoIdsByName(last'.arg) = {})
            => /\ ~last'.ok
               /\ last'.err = "NotFound"
               /\ tables' = tables ]_vars

\* a remove_repo of an unregistered name that failed on a store holding a repo
\* and a commit
C11_Witness ==
    /\ last.op = "remove_repo"
    /\ ~last.ok
    /\ RepoIdsByName(last.arg) = {}
    /\ repos # << >>
    /\ commits # << >>

NoTwoReposShareAName ==
    \A a, b \in DOMAIN repos : repos[a].name = repos[b].name => a = b

\* C12: add_repo with a name that is already registered fails and leaves the
\* existing repo row and all other tables unchanged; in every reachable state
\* no two repos rows share a name.
C12_AddRepoUniqueName ==
    /\ []NoTwoReposShareAName
    /\ [][ (last'.op = "add_repo" /\ RepoIdsByName(last'.arg.name) # {})
              => /\ ~last'.ok
                 /\ tables' = tables ]_vars

\* an add_repo of a registered name that failed
C12_Witness ==
    /\ last.op = "add_repo"
    /\ ~last.ok
    /\ RepoIdsByName(last.arg.name) # {}
    /\ commits # << >>

\* ---------------------------------------------------------------------------
\* SpecEmbed: the calls of Spec on one commit of the first repo, with
\* upsert_commit_files, update_ingest_state and store_embedding.
FileLists ==
    { << [repo_id |-> id, sha |-> Sha1, path |-> P_src_a, status |-> "M",
          old_path |-> None] >> : id \in {1} }

IngestStates ==
    { [repo_id |-> id, last_synced_at |-> 1, last_synced_sha |-> Some(Sha1),
       last_error |-> None] : id \in {1} }

\* the embeddings stored: a vector is given by one coordinate
Vectors == {1, 5}

\* as embed_pending calls it: with the repo's id and name
EmbeddingInputs ==
    { [repo_id |-> r[1], sha |-> Sha1, subject |-> T_a, repo_name |-> r[2],
       author_time |-> 1, patch_preview |-> None, embedding |-> v] :
      r \in { <<1, "alpha">>, <<2, "beta">> }, v \in Vectors }

EmbedUpsertCommit ==
    CallUpsertCommit(MakeCommits({1}, {Sha1},
                                 {[subject |-> T_a, body |-> None, author_time |-> 1]}),
                     MaxRowid)
EmbedUpsertCommitFiles == CallUpsertCommitFiles(FileLists)
EmbedUpsertPatch ==
    CallUpsertPatch(MakePatches({1}, {Sha1},
                                {[patch_blob |-> Raw(T_a), patch_preview |-> T_a]}))
UpdateIngestState == CallUpdateIngestState(IngestStates)
StoreEmbedding == CallStoreEmbedding(EmbeddingInputs)

NextEmbed ==
    \/ AddRepo
    \/ RemoveRepo
    \/ EmbedUpsertCommit
    \/ EmbedUpsertCommitFiles
    \/ EmbedUpsertPatch
    \/ UpdateIngestState
    \/ StoreEmbedding

SpecEmbed == Init /\ [][NextEmbed]_vars

\* the options of a semantic search restricted to one repo
OnlyRepo(name) ==
    [since |-> None, repos |-> Some(<<name>>), paths |-> None, limit |-> None]

\* the vectors asked of search_semantic
QueryVectors == {0, 3}

\* C8: after store_embedding on (repo_id, sha), repeated or not and with any
\* vector, commit_embed_map has exactly one row for the key, with the
\* embed_id the key had before the call if it had one, and commit_embeddings
\* has exactly one row for it, under that embed_id, holding the values of the
\* call; no commit_embeddings row is without its commit_embed_map row.
C8_StoreEmbeddingIdempotent ==
    last.op = "store_embedding" =>
        LET e == last.arg
            ids == EmbedIds(e.repo_id, e.sha)
        IN /\ Cardinality(ids) = 1
           /\ last.before # {} => ids = last.before
           /\ ids \subseteq DOMAIN commit_embeddings
           /\ DOMAIN commit_embeddings = DOMAIN commit_embed_map
           /\ \A id \in ids :
                 /\ commit_embeddings[id].embedding = e.embedding
                 /\ commit_embeddings[id].sha = e.sha
                 /\ commit_embeddings[id].subject = e.subject
                 /\ commit_embeddings[id].repo_name = e.repo_name
                 /\ commit_embeddings[id].author_time = e.author_time
                 /\ commit_embeddings[id].patch_preview = e.patch_preview

\* a second store_embedding of the second key stored, with another vector
C8_Witness ==
    /\ last.op = "store_embedding"
    /\ last.again
    /\ last.before = {2}
    /\ last.arg.embedding = 5
    /\ \E id \in DOMAIN commit_embeddings : commit_embeddings[id].embedding = 1

\* C10: after a successful remove_repo(name), no row of commits,
\* commit_files, commit_patches, ingest_state, commit_embed_map or
\* commit_embeddings references the removed repo_id, and search_semantic
\* returns nothing for the removed repo.
C10_RemoveRepoLeavesNoRow ==
    (last.op = "remove_repo" /\ last.ok) =>
        LET id == last.repo_id IN
        /\ \A r \in DOMAIN commits : commits[r].repo_id # id
        /\ \A i \in 1..Len(commit_files) : commit_files[i].repo_id # id
        /\ \A p \in commit_patches : p.repo_id # id
        /\ id \notin DOMAIN ingest_state
        /\ \A e \in DOMAIN commit_embed_map : commit_embed_map[e].repo_id # id
        /\ \A e \in DOMAIN commit_embeddings :
              e \in DOMAIN commit_embed_map => commit_embed_map[e].repo_id # id
        /\ \A v \in QueryVectors : \A tie \in TieOrders :
              search_semantic(v, OnlyRepo(last.arg), tie) = <<>>

\* ---------------------------------------------------------------------------
\* Ingest: sync_repo on a git repository.
\*
\* A git commit is [sha, author_email, author_time, subject, body, deltas]; a
\* delta of its diff against the first parent is [status, new_path, old_path,
\* binary, lines], `lines` being the contents diff.print hands to its
\* callback for that delta, as raw bytes.

\* IgnoreConfig::default().max_patch_bytes
MAX_PATCH_BYTES == 1048576

\* IgnoreConfig::default()
DefaultConfig ==
    [path_prefixes |-> << <<"node_modules/">>, <<"vendor/">>, <<"dist/">>, <<".git/">> >>,
     max_patch_bytes |-> MAX_PATCH_BYTES]

is_ignored(path, config) ==
    \E i \in 1..Len(config.path_prefixes) : IsPrefix(config.path_prefixes[i], path)

\* the merge of the repo's exclude_prefixes into the config
RECURSIVE MergePrefixes(_, _)
MergePrefixes(prefixes, more) ==
    IF more = <<>> THEN prefixes
    ELSE MergePrefixes(IF \E i \in 1..Len(prefixes) : prefixes[i] = Head(more)
                       THEN prefixes ELSE Append(prefixes, Head(more)),
                       Tail(more))

\* a sync that leaves the repo's exclude_prefixes out of the config
effective_config_unmerged(repo, config) == config

effective_config(repo, config) ==
    IF repo.exclude_prefixes = <<>> THEN config
    ELSE [config EXCEPT !.path_prefixes = MergePrefixes(@, repo.exclude_prefixes)]

FileStatusOf(status) ==
    CASE status \in {"Added", "Untracked"} -> "A"
      [] status \in {"Modified", "Typechange"} -> "M"
      [] status = "Deleted" -> "D"
      [] status = "Renamed" -> "R"
      [] status = "Copied" -> "C"
      [] OTHER -> "?"

\* get_commit_files: the rows of the deltas that are not binary, have a path
\* and are not ignored
RECURSIVE CommitFilesOf(_, _, _, _)
CommitFilesOf(deltas, repo_id, sha, config) ==
    IF deltas = <<>> THEN <<>>
    ELSE LET delta == Head(deltas)
             path == IF delta.status = "Deleted" THEN delta.old_path
                     ELSE IF delta.new_path # None THEN delta.new_path
                     ELSE delta.old_path
             rest == CommitFilesOf(Tail(deltas), repo_id, sha, config)
         IN IF delta.binary \/ path = None THEN rest
            ELSE IF is_ignored(path[1], config) THEN rest
            ELSE << [repo_id |-> repo_id, sha |-> sha, path |-> path[1],
                     status |-> FileStatusOf(delta.status),
                     old_path |-> IF delta.status = "Renamed" THEN delta.old_path
                                  ELSE None] >> \o rest

get_commit_files(commit, repo_id, config) ==
    CommitFilesOf(commit.deltas, repo_id, commit.sha, config)

\* the callback without the `truncated` flag: a line that fits is appended
\* also after one that did not
PrintLine_not_sticky(acc, delta, content, config) ==
    LET path == IF delta.new_path # None THEN delta.new_path ELSE delta.old_path
        path_ignored == IF path = None THEN FALSE ELSE is_ignored(path[1], config)
    IN IF delta.binary \/ path_ignored THEN acc
       ELSE IF ~IsValidUtf8(content.runs) THEN acc
       ELSE IF ByteLen(acc.patch_text) + ByteLen(content.runs) > config.max_patch_bytes
            THEN acc
       ELSE [acc EXCEPT !.patch_text = Concat(@, content.runs)]

\* the callback of diff.print on one line of a delta: acc is
\* [patch_text, truncated]
PrintLine(acc, delta, content, config) ==
    LET path == IF delta.new_path # None THEN delta.new_path ELSE delta.old_path
        path_ignored == IF path = None THEN FALSE ELSE is_ignored(path[1], config)
    IN IF delta.binary \/ path_ignored \/ acc.truncated THEN acc
       ELSE IF ~IsValidUtf8(content.runs) THEN acc
       ELSE IF ByteLen(acc.patch_text) + ByteLen(content.runs) > config.max_patch_bytes
            THEN [acc EXCEPT !.truncated = TRUE]
       ELSE [acc EXCEPT !.patch_text = Concat(@, content.runs)]

RECURSIVE PrintLines(_, _, _, _)
PrintLines(acc, delta, lines, config) ==
    IF lines = <<>> THEN acc
    ELSE PrintLines(PrintLine(acc, delta, Head(lines), config), delta, Tail(lines), config)

RECURSIVE PrintDeltas(_, _, _)
PrintDeltas(acc, deltas, config) ==
    IF deltas = <<>> THEN acc
    ELSE PrintDeltas(PrintLines(acc, Head(deltas), Head(deltas).lines, config),
                     Tail(deltas), config)

\* get_patch_text: None when the text is empty
get_patch_text(commit, config) ==
    LET patch_text ==
          PrintDeltas([patch_text |-> EmptyText, truncated |-> FALSE],
                      commit.deltas, config).patch_text
    IN IF patch_text = EmptyText THEN None ELSE Some(patch_text)

\* the CommitPatch sync_repo gives to upsert_patch for a patch text
SyncCommitPatch(repo_id, sha, text) ==
    LET preview_len == floor_char_boundary(text, PREVIEW_BYTES)
        patch_preview == SliceTo(text, preview_len)
        patch_blob == zstd_encode_all(Raw(text))
    IN [repo_id |-> repo_id, sha |-> sha, patch_blob |-> patch_blob,
        patch_preview |-> patch_preview]

\* str::eq_ignore_ascii_case on the author emails of the model
AsciiLower(email) == IF email = "Alice" THEN "alice" ELSE email

\* a comparison of the emails that minds the case
eq_case_sensitive(a, b) == a = b

eq_ignore_ascii_case(a, b) == AsciiLower(a) = AsciiLower(b)

\* the repository at local_path, oldest commit first (the revwalk's order);
\* its second commit also touches an ignored path and has a line that is not
\* UTF-8; its third commit, of another author, deletes a file and adds a
\* binary one
GitLog ==
    << [sha |-> Sha1, author_email |-> "alice", author_time |-> 1,
        subject |-> T_a, body |-> None,
        deltas |-> << [status |-> "Added", new_path |-> Some(P_src_a),
                       old_path |-> None, binary |-> FALSE,
                       lines |-> << Raw(T_wide), Raw(Rep("a", 300)) >>] >>],
       [sha |-> Sha2, author_email |-> "Alice", author_time |-> 2,
        subject |-> T_a_b, body |-> Some(T_b),
        deltas |-> << [status |-> "Modified", new_path |-> Some(P_vendor_x),
                       old_path |-> Some(P_vendor_x), binary |-> FALSE,
                       lines |-> << Raw(T_long) >>],
                      [status |-> "Modified", new_path |-> Some(P_src_a),
                       old_path |-> Some(P_src_a), binary |-> FALSE,
                       lines |-> << Raw(T_a), Raw(B_invalid), Raw(T_b) >>],
                      [status |-> "Added", new_path |-> Some(P_docs_r),
                       old_path |-> None, binary |-> FALSE,
                       lines |-> << Raw(T_a) >>] >>],
       [sha |-> Sha3, author_email |-> "bob", author_time |-> 3,
        subject |-> T_b, body |-> None,
        deltas |-> << [status |-> "Deleted", new_path |-> Some(P_docs_r),
                       old_path |-> Some(P_docs_r), binary |-> FALSE,
                       lines |-> << Raw(T_a) >>],
                      [status |-> "Added", new_path |-> Some(P_src_b),
                       old_path |-> None, binary |-> TRUE,
                       lines |-> << Raw(T_b) >>] >>] >>

\* SystemTime::now() as seconds
Now == 7

NewSummary(repo_name) ==
    [repo_name |-> repo_name, commits_indexed |-> 0, commits_already_indexed |-> 0,
     commits_filtered |-> 0, errors |-> <<>>]

\* sync_repo is called with a Repo read from the store beforehand
SyncStart ==
    /\ sync.pc = "idle"
    /\ UNCHANGED <<mutex, calls>>
    /\ \E id \in DOMAIN repos :
          sync' = [pc |-> "next",
                   repo |-> [repo_id |-> id, name |-> repos[id].name,
                             author_filter |-> repos[id].author_filter,
                             exclude_prefixes |-> repos[id].exclude_prefixes],
                   config |-> DefaultConfig,
                   i |-> 1,
                   summary |-> NewSummary(repos[id].name)]
    /\ UNCHANGED <<tables, last>>

\* the head of the loop body: commit_exists, the metadata, the author filter
SyncNext ==
    /\ sync.pc = "next"
    /\ UNCHANGED <<mutex, calls>>
    /\ sync.i <= Len(GitLog)
    /\ LET git_commit == GitLog[sync.i] IN
       IF commit_exists(sync.repo.repo_id, git_commit.sha)
       THEN sync' = [sync EXCEPT !.i = @ + 1,
                                 !.summary.commits_already_indexed = @ + 1]
       ELSE IF /\ sync.repo.author_filter # None
               /\ ~eq_ignore_ascii_case(git_commit.author_email,
                                        sync.repo.author_filter[1])
            THEN sync' = [sync EXCEPT !.i = @ + 1, !.summary.commits_filtered = @ + 1]
            ELSE sync' = [sync EXCEPT !.pc = "upsert"]
    /\ UNCHANGED <<tables, last>>

SyncUpsertCommitUpTo(max_rowid) ==
    /\ sync.pc = "upsert"
    /\ UNCHANGED <<mutex, calls>>
    /\ NewRowid(commits) <= max_rowid
    /\ LET git_commit == GitLog[sync.i]
           commit == [repo_id |-> sync.repo.repo_id, sha |-> git_commit.sha,
                      author_email |-> git_commit.author_email,
                      author_time |-> git_commit.author_time,
                      subject |-> git_commit.subject, body |-> git_commit.body]
       IN /\ upsert_commit(commit)
          /\ last' = [op |-> "upsert_commit", arg |-> commit, ok |-> TRUE,
                      again |-> Again("upsert_commit", commit)]
    /\ sync' = [sync EXCEPT !.pc = "files"]

SyncUpsertCommit == SyncUpsertCommitUpTo(MaxRowid)

SyncFiles ==
    /\ sync.pc = "files"
    /\ UNCHANGED <<mutex, calls>>
    /\ LET files == get_commit_files(GitLog[sync.i], sync.repo.repo_id,
                                     effective_config(sync.repo, sync.config))
       IN /\ upsert_commit_files(files)
          /\ last' = [op |-> "upsert_commit_files", arg |-> files, ok |-> TRUE,
                      again |-> Again("upsert_commit_files", files)]
    /\ sync' = [sync EXCEPT !.pc = "patch"]

\* `text` is the patch text sync_repo rendered for the commit
SyncPatch ==
    /\ sync.pc = "patch"
    /\ UNCHANGED <<mutex, calls>>
    /\ LET git_commit == GitLog[sync.i]
           text == get_patch_text(git_commit, effective_config(sync.repo, sync.config))
       IN IF text = None
          THEN UNCHANGED <<tables, last>>
          ELSE LET cp == SyncCommitPatch(sync.repo.repo_id, git_commit.sha, text[1]) IN
               /\ upsert_patch(cp)
               /\ last' = [op |-> "upsert_patch", arg |-> cp, ok |-> TRUE,
                           again |-> Again("upsert_patch", cp),
                           from |-> "sync_repo", repo_name |-> sync.repo.name,
                           text |-> text[1]]
    /\ sync' = [sync EXCEPT !.pc = "next", !.i = @ + 1,
                            !.summary.commits_indexed = @ + 1]

\* a last_error that keeps the error an earlier sync recorded
last_error_sticky(errors) ==
    IF errors # <<>> THEN Some(errors[Len(errors)])
    ELSE IF sync.repo.repo_id \in DOMAIN ingest_state
         THEN ingest_state[sync.repo.repo_id].last_error
         ELSE None

\* summary.errors.last().cloned()
last_error(errors) == IF errors = <<>> THEN None ELSE Some(errors[Len(errors)])

\* after the loop: update_ingest_state, and the summary is returned
SyncFinish ==
    /\ sync.pc = "next"
    /\ UNCHANGED <<mutex, calls>>
    /\ sync.i > Len(GitLog)
    /\ LET errors == sync.summary.errors
           state == [repo_id |-> sync.repo.repo_id, last_synced_at |-> Now,
                     last_synced_sha |-> Some(GitLog[Len(GitLog)].sha),
                     last_error |-> last_error(errors)]
       IN /\ update_ingest_state(state)
          /\ last' = [op |-> "sync_repo", arg |-> sync.repo.name, ok |-> TRUE,
                      again |-> Again("sync_repo", sync.repo.name),
                      repo_id |-> sync.repo.repo_id, summary |-> sync.summary]
    /\ sync' = NoSync

\* ---------------------------------------------------------------------------
\* SpecSync: sync_repo step by step, with add_repo, remove_repo and direct
\* upsert_commit and upsert_patch calls between its steps.
SyncRepoInputs ==
    { [name |-> "alpha", author_filter |-> None, exclude_prefixes |-> <<>>],
      [name |-> "beta", author_filter |-> Some("alice"),
       exclude_prefixes |-> << <<"docs/">>, <<"vendor/">> >>] }

SyncAddRepo == CallAddRepo(SyncRepoInputs)
DirectUpsertCommit ==
    CallUpsertCommit(MakeCommits({1}, {Sha1},
                                 {[subject |-> T_b, body |-> None, author_time |-> 1]}),
                     MaxRowid)
\* the preview given is the text of the blob
DirectUpsertPatch ==
    CallUpsertPatch(MakePatches({1}, {Sha1},
                                {[patch_blob |-> Raw(T_long), patch_preview |-> T_long]}))

NextSync ==
    \/ SyncAddRepo
    \/ RemoveRepo
    \/ DirectUpsertCommit
    \/ DirectUpsertPatch
    \/ SyncStart
    \/ SyncNext
    \/ SyncUpsertCommit
    \/ SyncFiles
    \/ SyncPatch
    \/ SyncFinish

SpecSync == Init /\ [][NextSync]_vars

\* the uncompressed text of a stored patch: what is left when every
\* compression applied to it is undone
PatchTextOf(p) == LossyRuns(p.patch_blob.runs)

\* C5: in every reachable state (any interleaving of upsert_commit,
\* upsert_patch and sync_repo), each commit that has a stored patch has
\* patch_preview equal to the first 500 characters, counted in characters, of
\* the uncompressed patch text of the last upsert_patch for that commit.
C5_PreviewIsFirst500Chars ==
    \A r \in DOMAIN commits : \A p \in commit_patches :
        (p.repo_id = commits[r].repo_id /\ p.sha = commits[r].sha) =>
            commits[r].patch_preview = TakeChars(PatchTextOf(p), PREVIEW_CHARS)

\* C7: after sync_repo has stored the patch of a commit whose rendered patch
\* text T is non-empty, get_patch(repo_name, sha, None) returns patch_text = T.
C7_SyncPatchRoundTrip ==
    (/\ last.op = "upsert_patch"
     /\ "from" \in DOMAIN last
     /\ last.arg.repo_id \in RepoIdsByName(last.repo_name))
    => get_patch(last.repo_name, last.arg.sha, None)
         = [kind |-> "Some", patch_text |-> last.text]

\* sync_repo alone: right after its upsert_patch, the preview of the commit
\* is the first 500 characters of the patch text it rendered
SyncPreviewIsFirst500Chars ==
    (last.op = "upsert_patch" /\ "from" \in DOMAIN last) =>
        \A r \in CommitRowids(last.arg.repo_id, last.arg.sha) :
            commits[r].patch_preview = TakeChars(last.text, PREVIEW_CHARS)

\* ---------------------------------------------------------------------------
\* SpecLimit: one repo that receives one commit more than the default limit
\* of search, the commits after the second with the same subject and
\* increasing author_time; the first commit is also upserted again and given
\* a patch.

\* the commits the repo receives
LimitCommits == SEARCH_DEFAULT_LIMIT + 1

Digit == <<"0", "1", "2", "3", "4", "5", "6", "7", "8", "9">>

\* the sha of the n-th commit
ShaOf(n) == <<"n", Digit[(n \div 10) + 1], Digit[(n % 10) + 1]>>

\* the commits upsert_commit is given when the store has n commits: the next
\* one and, while the store has 1, 2, 50 or 51 commits, the first one again
LimitCommitInputs(n) ==
    LET first == MakeCommits({1}, {ShaOf(1)}, CommitContents)
        new == IF n >= LimitCommits THEN {}
               ELSE IF n < 2 THEN MakeCommits({1}, {ShaOf(n + 1)}, CommitContents)
               ELSE MakeCommits({1}, {ShaOf(n + 1)},
                                {[subject |-> T_a, body |-> None, author_time |-> n + 1]})
    IN new \cup (IF n \in {1, 2} \/ n >= SEARCH_DEFAULT_LIMIT THEN first ELSE {})

LimitAddRepo ==
    CallAddRepo({[name |-> "alpha", author_filter |-> None, exclude_prefixes |-> <<>>]})
LimitUpsertCommit ==
    CallUpsertCommit(LimitCommitInputs(Cardinality(DOMAIN commits)),
                     Cardinality(DOMAIN commits) + 1 + MaxReplaced)
LimitUpsertPatch ==
    CallUpsertPatch(MakePatches({1}, {ShaOf(1)},
                                {[patch_blob |-> Raw(T_long), patch_preview |-> T_long]}))

NextLimit == LimitAddRepo \/ LimitUpsertCommit \/ LimitUpsertPatch

SpecLimit == Init /\ [][NextLimit]_vars

\* the terms of a commits row's current subject, body and patch_preview
TermsOf(r) == { e[4] : e \in RowEntries(r) }

\* search(term) with the default options returns the commits row r
Finds(term, r) ==
    \A tie \in TieOrders :
        LET results == search({term}, DefaultOpts, tie) IN
        \E i \in 1..Len(results) :
            /\ results[i].sha = commits[r].sha
            /\ results[i].repo = repos[commits[r].repo_id].name

\* C2 as stated: after any successful upsert_commit or upsert_patch on a
\* commit of a registered repo, a search whose query is a term of that
\* commit's current subject, body or patch_preview returns that commit.
C2_EveryCommitFindable ==
    (last.op \in {"upsert_commit", "upsert_patch"} /\ last.arg.repo_id \in DOMAIN repos) =>
        \A r \in CommitRowids(last.arg.repo_id, last.arg.sha) :
            \A term \in TermsOf(r) : Finds(term, r)

\* C2, amended: after any successful upsert_commit or upsert_patch on a commit
\* of a registered repo, a search with the default options whose query is a
\* term of that commit's current subject, body or patch_preview returns that
\* commit, provided no more commits match the term than the default limit of
\* 50 results.
C2_FindableWithinLimit ==
    (last.op \in {"upsert_commit", "upsert_patch"} /\ last.arg.repo_id \in DOMAIN repos) =>
        \A r \in CommitRowids(last.arg.repo_id, last.arg.sha) :
            \A term \in TermsOf(r) :
                Cardinality(search_rows({term}, DefaultOpts)) <= SEARCH_DEFAULT_LIMIT
                    => Finds(term, r)

\* the first commit, one of 50 that match the term of its subject, was given
\* a patch and is found by that term and by the term of its preview
C2_Witness ==
    /\ last.op = "upsert_patch"
    /\ 1 \in DOMAIN repos
    /\ Cardinality(search_rows({T_a}, DefaultOpts)) = SEARCH_DEFAULT_LIMIT
    /\ \E r \in CommitRowids(1, ShaOf(1)) :
          /\ TermsOf(r) = {T_a, Rep("b", PREVIEW_CHARS)}
          /\ Finds(T_a, r)
          /\ Finds(Rep("b", PREVIEW_CHARS), r)

\* ---------------------------------------------------------------------------
\* The store's methods statement by statement. A method takes the guard of
\* SqliteStore.conn in its first line and holds it until it returns; every
\* conn.execute is a statement of its own (the store opens no transaction),
\* and `?` returns the error of a failed statement at once, with the
\* statements before it applied.

\* Mutex::lock that returns while another thread holds the guard
can_lock_unguarded(t) == TRUE

\* self.conn.lock(): returns once no thread holds the guard
can_lock(t) == mutex = None

\* a guard that outlives the method that took it
drop_guard_leaked(t) == mutex

\* the guard goes out of scope when the method returns
drop_guard(t) == IF mutex = Some(t) THEN None ELSE mutex

\* the number of statements of a method
StmtCount(op) ==
    CASE op = "upsert_commit" -> 3
      [] op = "upsert_patch" -> 4
      [] op = "remove_repo" -> 7
      [] op = "store_embedding" -> 3
      [] op = "search" -> 1
      [] op = "commit_exists" -> 1

\* upsert_commit: 1 the SELECTs of the old row and the FTS 'delete';
\* 2 INSERT OR REPLACE INTO commits; 3 last_insert_rowid and the FTS insert.
\* `loc` is the rowid statement 2 inserted.
upsert_commit_stmt(commit, pc, loc) ==
    LET existing == CommitRowids(commit.repo_id, commit.sha)
        row == [repo_id |-> commit.repo_id, sha |-> commit.sha,
                author_email |-> commit.author_email,
                author_time |-> commit.author_time,
                subject |-> commit.subject, body |-> commit.body,
                patch_preview |-> EmptyText]
    IN
    /\ commits_fts' =
         CASE pc = 1 /\ existing # {} ->
                LET old_rowid == CHOOSE r \in existing : TRUE IN
                fts_delete(commits_fts, old_rowid, Some(commits[old_rowid].subject),
                           commits[old_rowid].body,
                           Some(commits[old_rowid].patch_preview))
           [] pc = 3 -> fts_insert(commits_fts, loc, Some(commit.subject), commit.body,
                                   Some(EmptyText))
           [] OTHER -> commits_fts
    /\ commits' = IF pc = 2
                  THEN With(Without(commits, existing), NewRowid(commits), row)
                  ELSE commits
    /\ UNCHANGED <<repos, repo_seq, commit_files, commit_patches, ingest_state,
                   commit_embed_map, embed_seq, commit_embeddings>>

upsert_commit_loc(commit, pc, loc) == IF pc = 2 THEN NewRowid(commits) ELSE loc

\* upsert_patch: 1 INSERT OR REPLACE INTO commit_patches; 2 the SELECTs of the
\* commits row and its old preview and the FTS 'delete'; 3 UPDATE commits;
\* 4 the FTS insert. `loc` is the row statement 2 selected, if any.
upsert_patch_stmt(patch, pc, loc) ==
    LET compressed == zstd_encode_all(patch.patch_blob)
        preview == TakeChars(patch.patch_preview, PREVIEW_CHARS)
        row == CommitRowids(patch.repo_id, patch.sha)
    IN
    /\ commit_patches' =
         IF pc = 1
         THEN { p \in commit_patches : ~(p.repo_id = patch.repo_id /\ p.sha = patch.sha) }
                  \cup {[repo_id |-> patch.repo_id, sha |-> patch.sha,
                         patch_blob |-> compressed]}
         ELSE commit_patches
    /\ commits_fts' =
         CASE pc = 2 /\ row # {} ->
                LET rowid == CHOOSE r \in row : TRUE IN
                fts_delete(commits_fts, rowid, Some(commits[rowid].subject),
                           commits[rowid].body, Some(commits[rowid].patch_preview))
           [] pc = 4 -> fts_insert(commits_fts, loc[1].rowid, Some(loc[1].subject),
                                   loc[1].body, Some(preview))
           [] OTHER -> commits_fts
    /\ commits' =
         IF pc = 3 /\ loc[1].rowid \in DOMAIN commits
         THEN [commits EXCEPT ![loc[1].rowid].patch_preview = preview]
         ELSE commits
    /\ UNCHANGED <<repos, repo_seq, commit_files, ingest_state,
                   commit_embed_map, embed_seq, commit_embeddings>>

upsert_patch_loc(patch, pc, loc) ==
    LET row == CommitRowids(patch.repo_id, patch.sha) IN
    IF pc # 2 THEN loc
    ELSE IF row = {} THEN None
    ELSE LET rowid == CHOOSE r \in row : TRUE IN
         Some([rowid |-> rowid, subject |-> commits[rowid].subject,
               body |-> commits[rowid].body])

\* `if let Some(..) = row`: without a commits row the method returns after
\* statement 2
upsert_patch_done(patch, pc) ==
    \/ pc = 4
    \/ pc = 2 /\ CommitRowids(patch.repo_id, patch.sha) = {}

\* remove_repo: 1 the lookup of repo_id; 2 DELETE FROM commit_patches;
\* 3 commit_files; 4 ingest_state; 5 commits; 6 the FTS 'rebuild'; 7 DELETE
\* FROM repos. `loc` is the repo_id statement 1 selected.
remove_repo_stmt(name, pc, loc) ==
    /\ commit_patches' = IF pc = 2 THEN { p \in commit_patches : p.repo_id # loc }
                         ELSE commit_patches
    /\ commit_files' = IF pc = 3 THEN SelectSeq(commit_files, LAMBDA f : f.repo_id # loc)
                       ELSE commit_files
    /\ ingest_state' = IF pc = 4 THEN Without(ingest_state, {loc}) ELSE ingest_state
    /\ commits' = IF pc = 5
                  THEN Without(commits, { r \in DOMAIN commits : commits[r].repo_id = loc })
                  ELSE commits
    /\ commits_fts' = IF pc = 6 THEN fts_rebuild(commits) ELSE commits_fts
    /\ repos' = IF pc = 7 THEN Without(repos, {loc}) ELSE repos
    /\ UNCHANGED <<repo_seq, commit_embed_map, embed_seq, commit_embeddings>>

remove_repo_loc(name, pc, loc) ==
    IF pc = 1 /\ RepoIdsByName(name) # {}
    THEN CHOOSE id \in RepoIdsByName(name) : TRUE
    ELSE loc

\* store_embedding: 1 INSERT OR IGNORE INTO commit_embed_map and the SELECT of
\* embed_id; 2 DELETE FROM commit_embeddings; 3 INSERT INTO commit_embeddings.
\* `loc` is the embed_id statement 1 selected.
store_embedding_stmt(e, pc, loc) ==
    LET known == EmbedIds(e.repo_id, e.sha)
        row == [embedding |-> e.embedding, sha |-> e.sha, subject |-> e.subject,
                repo_name |-> e.repo_name, author_time |-> e.author_time,
                patch_preview |-> e.patch_preview]
    IN
    /\ commit_embed_map' =
         IF pc = 1 /\ known = {}
         THEN With(commit_embed_map, embed_seq + 1,
                   [repo_id |-> e.repo_id, sha |-> e.sha])
         ELSE commit_embed_map
    /\ embed_seq' = IF pc = 1 /\ known = {} THEN embed_seq + 1 ELSE embed_seq
    /\ commit_embeddings' =
         CASE pc = 2 -> Without(commit_embeddings, {loc})
           [] pc = 3 -> With(commit_embeddings, loc, row)
           [] OTHER -> commit_embeddings
    /\ UNCHANGED <<repos, repo_seq, commits, commit_files, commit_patches, ingest_state,
                   commits_fts>>

store_embedding_loc(e, pc, loc) ==
    LET known == EmbedIds(e.repo_id, e.sha) IN
    IF pc # 1 THEN loc
    ELSE IF known = {} THEN embed_seq + 1 ELSE CHOOSE id \in known : TRUE

\* ------------------------------------------------- calls made by threads
SetCall(t, c) == [calls EXCEPT ![t] = c]

WriteOps == {"upsert_commit", "upsert_patch", "remove_repo", "store_embedding"}
ReadOps == {"search", "commit_exists"}

\* thread t is between the lock() and the return of a store method
Inside(t) ==
    \/ calls[t].op \in WriteOps \cup ReadOps
    \/ calls[t].op = "embed_pending" /\ calls[t].stage \in {"fetch", "store"}

\* thread t has run some statements of a write and not yet all of them
MidWrite(t) ==
    \/ calls[t].op \in WriteOps /\ calls[t].pc > 1
    \/ calls[t].op = "embed_pending" /\ calls[t].stage = "store" /\ calls[t].pc > 1

\* the commit whose upsert_commit was the last call to return
LastUpserted ==
    IF last.op = "upsert_commit" /\ last.ok
    THEN Some(<<last.arg.repo_id, last.arg.sha>>)
    ELSE None

\* what a read returns: the (repo, sha) of search's results; commit_exists
ReadValue(op, arg) ==
    CASE op = "search" ->
            LET res == search(arg, DefaultOpts, "asc") IN
            { <<res[i].repo, res[i].sha>> : i \in 1..Len(res) }
      [] op = "commit_exists" -> commit_exists(arg.repo_id, arg.sha)

\* thread t calls a method: `let conn = self.conn.lock().unwrap()`.
\* `after` is the upsert_commit that had just returned, `before` the tables as
\* the call found them; `loc` starts as loc0.
Lock(t, op, arg, loc0) ==
    /\ calls[t].op = "idle"
    /\ can_lock(t)
    /\ mutex' = Some(t)
    /\ calls' = SetCall(t, [op |-> op, arg |-> arg, pc |-> 1, loc |-> loc0,
                            after |-> LastUpserted, before |-> tables])
    /\ UNCHANGED <<tables, last, sync>>

\* the method returns `result`: the guard is dropped
Return(t, result) ==
    /\ mutex' = drop_guard(t)
    /\ calls' = SetCall(t, NoCall)
    /\ last' = result

\* the next statement is reached
Proceed(t, loc) ==
    /\ calls' = SetCall(t, [calls[t] EXCEPT !.pc = @ + 1, !.loc = loc])
    /\ UNCHANGED <<mutex, last>>

Ok(c) == [op |-> c.op, arg |-> c.arg, ok |-> TRUE, again |-> FALSE]

LockUpsertCommit(t, inputs, max_rowid) ==
    \E commit \in inputs :
        /\ NewRowid(commits) <= max_rowid
        /\ Lock(t, "upsert_commit", commit, 0)

StepUpsertCommit(t) ==
    LET c == calls[t] IN
    /\ c.op = "upsert_commit"
    /\ upsert_commit_stmt(c.arg, c.pc, c.loc)
    /\ IF c.pc = StmtCount(c.op)
       THEN Return(t, Ok(c))
       ELSE Proceed(t, upsert_commit_loc(c.arg, c.pc, c.loc))
    /\ UNCHANGED sync

LockUpsertPatch(t, inputs) ==
    \E patch \in inputs : Lock(t, "upsert_patch", patch, None)

StepUpsertPatch(t) ==
    LET c == calls[t] IN
    /\ c.op = "upsert_patch"
    /\ upsert_patch_stmt(c.arg, c.pc, c.loc)
    /\ IF upsert_patch_done(c.arg, c.pc)
       THEN Return(t, Ok(c))
       ELSE Proceed(t, upsert_patch_loc(c.arg, c.pc, c.loc))
    /\ UNCHANGED sync

LockRemoveRepo(t, names) ==
    \E name \in names : Lock(t, "remove_repo", name, 0)

StepRemoveRepo(t) ==
    LET c == calls[t] IN
    /\ c.op = "remove_repo"
    /\ IF c.pc = 1 /\ RepoIdsByName(c.arg) = {}
       THEN /\ UNCHANGED tables
            /\ Return(t, [op |-> c.op, arg |-> c.arg, ok |-> FALSE, again |-> FALSE,
                          err |-> remove_repo_err(c.arg)])
       ELSE /\ remove_repo_stmt(c.arg, c.pc, c.loc)
            /\ IF c.pc = StmtCount(c.op)
               THEN Return(t, Ok(c) @@ [repo_id |-> c.loc])
               ELSE Proceed(t, remove_repo_loc(c.arg, c.pc, c.loc))
    /\ UNCHANGED sync

LockStoreEmbedding(t, inputs) ==
    \E e \in inputs : Lock(t, "store_embedding", e, 0)

StepStoreEmbedding(t) ==
    LET c == calls[t] IN
    /\ c.op = "store_embedding"
    /\ store_embedding_stmt(c.arg, c.pc, c.loc)
    /\ IF c.pc = StmtCount(c.op)
       THEN Return(t, Ok(c))
       ELSE Proceed(t, store_embedding_loc(c.arg, c.pc, c.loc))
    /\ UNCHANGED sync

\* the statement thread t has reached fails: `?` returns its error
FailStmt(t) ==
    LET c == calls[t] IN
    /\ c.op \in WriteOps
    /\ UNCHANGED tables
    /\ Return(t, [op |-> c.op, arg |-> c.arg, ok |-> FALSE, again |-> FALSE,
                  err |-> "Sqlite", at |-> c.pc])
    /\ UNCHANGED sync

\* a read: `loc` is what the read would have returned when it took the guard
LockRead(t, op, args) ==
    \E arg \in args : Lock(t, op, arg, ReadValue(op, arg))

\* `settled`: no other thread had a write under way when the statement ran
StepRead(t) ==
    LET c == calls[t] IN
    /\ c.op \in ReadOps
    /\ UNCHANGED tables
    /\ Return(t, Ok(c) @@ [result |-> ReadValue(c.op, c.arg), at_lock |-> c.loc,
                           after |-> c.after,
                           settled |-> \A u \in Threads \ {t} : ~MidWrite(u)])
    /\ UNCHANGED sync

\* a method of one statement, as one step of some thread
Atomically(A) ==
    /\ \E t \in Threads : calls[t].op = "idle" /\ can_lock(t)
    /\ A

\* ---------------------------------------------------------------------------
\* SpecFault: one thread calls add_repo, upsert_commit, upsert_patch and
\* remove_repo on one repo and one commit id; the statement a call has reached
\* may fail (a full disk, an I/O error, a database locked by another process).
\* SpecFaultEmbed: the same for upsert_commit and store_embedding (there the
\* INSERT also fails on a vector that has not the 768 dimensions of the table).
FaultCommits ==
    MakeCommits({1}, {Sha1}, {[subject |-> T_a, body |-> None, author_time |-> 1]})
FaultPatches ==
    MakePatches({1}, {Sha1}, {[patch_blob |-> Raw(T_a), patch_preview |-> T_b]})
FaultEmbeddings == EmbeddingInputs

NextFault ==
    \/ Atomically(CallAddRepo({ r \in RepoInputs : r.name = "alpha" }))
    \/ LockUpsertCommit(1, FaultCommits, MaxRowid)
    \/ LockUpsertPatch(1, FaultPatches)
    \/ LockRemoveRepo(1, {"alpha"})
    \/ StepUpsertCommit(1)
    \/ StepUpsertPatch(1)
    \/ StepRemoveRepo(1)
    \/ FailStmt(1)

SpecFault == Init /\ [][NextFault]_vars

NextFaultEmbed ==
    \/ Atomically(CallAddRepo({ r \in RepoInputs : r.name = "alpha" }))
    \/ LockUpsertCommit(1, FaultCommits, MaxRowid)
    \/ LockStoreEmbedding(1, FaultEmbeddings)
    \/ StepUpsertCommit(1)
    \/ StepStoreEmbedding(1)
    \/ FailStmt(1)

SpecFaultEmbed == Init /\ [][NextFaultEmbed]_vars

\* thread t's call of one of `ops` returns an error in this step
FailsIn(t, ops) ==
    /\ calls[t].op \in ops
    /\ calls'[t].op = "idle"
    /\ ~last'.ok

\* C13: upsert_commit and upsert_patch are all-or-nothing: if any of their SQL
\* statements fails after earlier ones succeeded, the call returns an error
\* and commits, commit_patches and commits_fts are as before the call.
C13_UpsertAllOrNothing ==
    [][ \A t \in Threads :
          FailsIn(t, {"upsert_commit", "upsert_patch"})
              => <<commits', commit_patches', commits_fts'>>
                   = <<calls[t].before[3], calls[t].before[5], calls[t].before[7]>> ]_vars

\* C14: remove_repo is all-or-nothing: if any of its delete or rebuild
\* statements fails, the call returns an error and no row of the repo
\* (patches, files, ingest state, commits, the repos row) has been deleted.
C14_RemoveRepoAllOrNothing ==
    [][ \A t \in Threads :
          FailsIn(t, {"remove_repo"})
              => <<repos', commits', commit_files', commit_patches', ingest_state'>>
                   = <<calls[t].before[1], calls[t].before[3], calls[t].before[4],
                       calls[t].before[5], calls[t].before[6]>> ]_vars

\* every commit_embed_map row has a commit_embeddings row of its embed_id
EveryMapRowHasAVector == DOMAIN commit_embed_map \subseteq DOMAIN commit_embeddings

\* C15: store_embedding is all-or-nothing: if the vector delete or insert
\* fails after the commit_embed_map insert succeeded, the call returns an
\* error and neither commit_embed_map nor commit_embeddings has changed; in
\* every state a caller can observe, each commit_embed_map row has a
\* commit_embeddings row with the same embed_id.
C15_StoreEmbeddingAllOrNothing ==
    /\ [](mutex = None => EveryMapRowHasAVector)
    /\ [][ \A t \in Threads :
             FailsIn(t, {"store_embedding"})
                 => <<commit_embed_map', commit_embeddings'>>
                      = <<calls[t].before[8], calls[t].before[10]>> ]_vars

\* ------------------------------------------------------------ embed_pending
\* SELECT ... FROM commits c JOIN repos r LEFT JOIN commit_embed_map m
\* WHERE c.repo_id = ?1 AND m.embed_id IS NULL ORDER BY c.author_time DESC
\* LIMIT ?2, as EmbedCommit values
get_commits_without_embeddings(repo_id, limit, tie) ==
    LET rows == { r \in DOMAIN commits :
                    /\ commits[r].repo_id = repo_id
                    /\ repo_id \in DOMAIN repos
                    /\ EmbedIds(repo_id, commits[r].sha) = {} }
        order == Take(OrderByAuthorTimeDesc(rows, tie), limit)
    IN [i \in 1..Len(order) |->
          [repo_id |-> repo_id, sha |-> commits[order[i]].sha,
           subject |-> commits[order[i]].subject,
           repo_name |-> repos[repo_id].name,
           author_time |-> commits[order[i]].author_time,
           patch_preview |-> Some(commits[order[i]].patch_preview)]]

\* the store_embedding call of embed_pending for a commit and its vector
EmbeddingOf(commit, vec) ==
    [repo_id |-> commit.repo_id, sha |-> commit.sha, subject |-> commit.subject,
     repo_name |-> commit.repo_name, author_time |-> commit.author_time,
     patch_preview |-> commit.patch_preview, embedding |-> vec]

\* `for commit in &batch`: the next commit, or the next batch
NextOfBatch(c) ==
    IF c.i < Len(c.batch)
    THEN [c EXCEPT !.stage = "embed", !.i = @ + 1]
    ELSE [c EXCEPT !.stage = "call_fetch"]

\* embed_pending(store, embedder, repo_id, batch_size) is called
EmbedPendingStart(t, repo_ids, batch_sizes) ==
    \E repo_id \in repo_ids, batch_size \in batch_sizes :
        /\ calls[t].op = "idle"
        /\ calls' = SetCall(t, [op |-> "embed_pending",
                                arg |-> [repo_id |-> repo_id, batch_size |-> batch_size],
                                stage |-> "call_fetch", batch |-> <<>>, i |-> 0,
                                vec |-> 0, pc |-> 0, loc |-> 0,
                                summary |-> [embedded |-> 0, failed |-> 0]])
        /\ UNCHANGED <<tables, last, sync, mutex>>

\* get_commits_without_embeddings takes the guard
EmbedPendingFetchLock(t) ==
    LET c == calls[t] IN
    /\ c.op = "embed_pending"
    /\ c.stage = "call_fetch"
    /\ can_lock(t)
    /\ mutex' = Some(t)
    /\ calls' = SetCall(t, [c EXCEPT !.stage = "fetch"])
    /\ UNCHANGED <<tables, last, sync>>

\* get_commits_without_embeddings returns the batch and drops the guard; an
\* empty batch ends embed_pending
EmbedPendingFetch(t) ==
    LET c == calls[t] IN
    /\ c.op = "embed_pending"
    /\ c.stage = "fetch"
    /\ mutex' = drop_guard(t)
    /\ \E tie \in TieOrders :
          LET batch == get_commits_without_embeddings(c.arg.repo_id, c.arg.batch_size, tie)
          IN IF batch = <<>>
             THEN /\ calls' = SetCall(t, NoCall)
                  /\ last' = [op |-> "embed_pending", arg |-> c.arg, ok |-> TRUE,
                              again |-> FALSE, summary |-> c.summary]
             ELSE /\ calls' = SetCall(t, [c EXCEPT !.stage = "embed", !.batch = batch,
                                                   !.i = 1])
                  /\ UNCHANGED last
    /\ UNCHANGED <<tables, sync>>

\* the characters a str::trim leaves nothing of
IsBlank(t) == \A i \in 1..Len(t) : t[i][1] = " "

\* build_embed_doc: the subject and the patch preview cut at 1600 bytes;
\* `&preview[..1600]` panics when byte 1600 is inside a character
build_embed_doc(commit) ==
    LET preview == commit.patch_preview IN
    IF preview = None \/ IsBlank(preview[1])
    THEN [panic |-> FALSE, subject |-> commit.subject, patch |-> None]
    ELSE IF ByteLen(preview[1]) <= EMBED_PREVIEW_BYTES
    THEN [panic |-> FALSE, subject |-> commit.subject, patch |-> preview]
    ELSE IF floor_char_boundary(preview[1], EMBED_PREVIEW_BYTES) = EMBED_PREVIEW_BYTES
    THEN [panic |-> FALSE, subject |-> commit.subject,
          patch |-> Some(SliceTo(preview[1], EMBED_PREVIEW_BYTES))]
    ELSE [panic |-> TRUE]

\* a failed embed that ends the call
embed_failed_returns(c) == NoCall

\* Err(e) of embedder.embed: failed += 1 and the loop goes on
embed_failed(c) == NextOfBatch([c EXCEPT !.summary.failed = @ + 1])

\* embedder.embed(&doc).await answers a vector
EmbedPendingEmbedOk(t) ==
    LET c == calls[t] IN
    /\ c.op = "embed_pending"
    /\ c.stage = "embed"
    /\ ~build_embed_doc(c.batch[c.i]).panic
    /\ \E vec \in Vectors :
          calls' = SetCall(t, [c EXCEPT !.stage = "call_store", !.vec = vec])
    /\ UNCHANGED <<tables, last, sync, mutex>>

\* embedder.embed(&doc).await answers an error
EmbedPendingEmbedErr(t) ==
    LET c == calls[t] IN
    /\ c.op = "embed_pending"
    /\ c.stage = "embed"
    /\ ~build_embed_doc(c.batch[c.i]).panic
    /\ c.summary.failed < MaxFailed
    /\ calls' = SetCall(t, embed_failed(c))
    /\ UNCHANGED <<tables, last, sync, mutex>>

\* embedder.embed(&doc).await answers: a vector, or an error (failed += 1)
EmbedPendingEmbed(t) == EmbedPendingEmbedOk(t) \/ EmbedPendingEmbedErr(t)

\* build_embed_doc panics: the task running embed_pending is gone and the
\* call never returns
EmbedPendingPanic(t) ==
    LET c == calls[t] IN
    /\ c.op = "embed_pending"
    /\ c.stage = "embed"
    /\ build_embed_doc(c.batch[c.i]).panic
    /\ calls' = SetCall(t, [op |-> "panicked", arg |-> c.arg])
    /\ UNCHANGED <<tables, last, sync, mutex>>

\* store_embedding takes the guard
EmbedPendingStoreLock(t) ==
    LET c == calls[t] IN
    /\ c.op = "embed_pending"
    /\ c.stage = "call_store"
    /\ can_lock(t)
    /\ mutex' = Some(t)
    /\ calls' = SetCall(t, [c EXCEPT !.stage = "store", !.pc = 1, !.loc = 0])
    /\ UNCHANGED <<tables, last, sync>>

\* a statement of store_embedding; after the last one it returns Ok
\* (embedded += 1)
EmbedPendingStore(t) ==
    LET c == calls[t]
        e == EmbeddingOf(c.batch[c.i], c.vec)
    IN
    /\ c.op = "embed_pending"
    /\ c.stage = "store"
    /\ store_embedding_stmt(e, c.pc, c.loc)
    /\ IF c.pc = StmtCount("store_embedding")
       THEN /\ mutex' = drop_guard(t)
            /\ calls' = SetCall(t, NextOfBatch([c EXCEPT !.summary.embedded = @ + 1,
                                                         !.pc = 0, !.loc = 0]))
            /\ last' = [op |-> "store_embedding", arg |-> e, ok |-> TRUE,
                        again |-> FALSE]
       ELSE Proceed(t, store_embedding_loc(e, c.pc, c.loc))
    /\ UNCHANGED sync

\* ---------------------------------------------------------------------------
\* SpecThreads: two threads share one SqliteStore; each calls add_repo,
\* upsert_commit, upsert_patch, search, commit_exists and embed_pending, the
\* methods running statement by statement under the guard.
ThreadCommits ==
    MakeCommits({1}, {Sha1}, {[subject |-> T_a, body |-> None, author_time |-> 1]})
ThreadPatches ==
    MakePatches({1}, {Sha1}, {[patch_blob |-> Raw(T_a), patch_preview |-> T_b]})

NextThreads ==
    \/ Atomically(CallAddRepo({ r \in RepoInputs : r.name = "alpha" }))
    \/ \E t \in Threads : LockUpsertCommit(t, ThreadCommits, MaxThreadRowid)
    \/ \E t \in Threads : LockUpsertPatch(t, ThreadPatches)
    \/ \E t \in Threads : LockRead(t, "search", {{T_a}, {T_b}})
    \/ \E t \in Threads : LockRead(t, "commit_exists", {[repo_id |-> 1, sha |-> Sha1]})
    \/ \E t \in Threads : StepUpsertCommit(t)
    \/ \E t \in Threads : StepUpsertPatch(t)
    \/ \E t \in Threads : StepRead(t)
    \/ \E t \in Threads : EmbedPendingStart(t, {1}, {1})
    \/ \E t \in Threads : EmbedPendingFetchLock(t)
    \/ \E t \in Threads : EmbedPendingFetch(t)
    \/ \E t \in Threads : EmbedPendingEmbed(t)
    \/ \E t \in Threads : EmbedPendingStoreLock(t)
    \/ \E t \in Threads : EmbedPendingStore(t)

SpecThreads == Init /\ [][NextThreads]_vars

\* C16: with several threads calling operations of one SqliteStore, the
\* operations are serialized by the connection mutex: at most one thread is
\* inside a method and it holds the guard; when no thread is inside, the
\* tables are those whole calls leave (the index matches commits); a read saw
\* no write of another thread under way, returned what the tables held when
\* it took the guard, and a commit_exists that started after the upsert_commit
\* of its commit returned is true.
C16_OperationsSerialized ==
    /\ \A t, u \in Threads : Inside(t) /\ Inside(u) => t = u
    /\ \A t \in Threads : Inside(t) => mutex = Some(t)
    /\ mutex = None => C1_FtsMatchesCommits
    /\ last.op \in ReadOps =>
         /\ last.settled
         /\ last.result = last.at_lock
         /\ (/\ last.op = "commit_exists"
             /\ last.after = Some(<<last.arg.repo_id, last.arg.sha>>)) => last.result

\* a search that found the commit has returned to one thread, and the other
\* thread has since run a part of a write
C16_Witness ==
    /\ last.op = "search"
    /\ last.result # {}
    /\ \E t \in Threads : MidWrite(t)

\* C17: the store mutex is never held while the embedder's embed call is in
\* flight: during embed_pending the guard is held only inside
\* get_commits_without_embeddings and store_embedding, so while an embed call
\* is pending and no other thread is inside a method the mutex is free.
C17_NoLockAcrossEmbed ==
    \A t \in Threads :
        calls[t].op = "embed_pending" =>
            /\ mutex = Some(t) => calls[t].stage \in {"fetch", "store"}
            /\ calls[t].stage = "embed" =>
                 /\ mutex # Some(t)
                 /\ (\A u \in Threads \ {t} : ~Inside(u)) => mutex = None

\* an embed call of one thread is pending while the other thread is inside
\* a write
C17_Witness ==
    \E t, u \in Threads :
        /\ calls[t].op = "embed_pending"
        /\ calls[t].stage = "embed"
        /\ calls[u].op \in WriteOps
        /\ MidWrite(u)
        /\ mutex = Some(u)

\* ---------------------------------------------------------------------------
\* SpecResync: add_repo and sync_repo only, any number of times, on a repo
\* without a filter and a repo with an author filter and exclude_prefixes.
ResyncUpsertCommit == SyncUpsertCommitUpTo(MaxSyncRowid)

NextResync ==
    \/ SyncAddRepo
    \/ SyncStart
    \/ SyncNext
    \/ ResyncUpsertCommit
    \/ SyncFiles
    \/ SyncPatch
    \/ SyncFinish

SpecResync == Init /\ [][NextResync]_vars

\* the sync_repo in progress is of a repo that a sync_repo has finished before
Resync == sync.pc # "idle" /\ sync.repo.repo_id \in DOMAIN ingest_state

MatchesFilter(email, filter) ==
    \/ email = filter
    \/ {email, filter} = {"alice", "Alice"}

\* the commits of the walk that are not stored for the repo and whose author
\* does not match the filter
FilteredOut(repo_id, filter) ==
    { i \in 1..Len(GitLog) :
        /\ CommitRowids(repo_id, GitLog[i].sha) = {}
        /\ ~MatchesFilter(GitLog[i].author_email, filter) }

\* C19: with author_filter = e on a repo, after any sequence of sync_repo
\* calls every commit persisted for that repo has author_email equal to e
\* ignoring ASCII case; in each sync commits_filtered is the number of walked,
\* not-yet-stored commits whose author_email does not match e; a filtered
\* commit gets no commit, file or patch row.
C19_AuthorFilter ==
    \A id \in DOMAIN repos :
        repos[id].author_filter # None =>
            LET e == repos[id].author_filter[1] IN
            /\ \A r \in DOMAIN commits :
                  commits[r].repo_id = id => MatchesFilter(commits[r].author_email, e)
            /\ (last.op = "sync_repo" /\ last.repo_id = id) =>
                  last.summary.commits_filtered = Cardinality(FilteredOut(id, e))
            /\ \A i \in 1..Len(GitLog) :
                  ~MatchesFilter(GitLog[i].author_email, e) =>
                      /\ CommitRowids(id, GitLog[i].sha) = {}
                      /\ FilePaths(id, GitLog[i].sha) = {}
                      /\ \A p \in commit_patches :
                            ~(p.repo_id = id /\ p.sha = GitLog[i].sha)

\* a sync of the repo with the filter has returned: it stored the commits of
\* "alice" and of "Alice" and filtered the third one
C19_Witness ==
    /\ last.op = "sync_repo"
    /\ repos[last.repo_id].author_filter = Some("alice")
    /\ last.summary.commits_filtered = 1
    /\ last.summary.commits_indexed = 2
    /\ \E r \in DOMAIN commits :
          commits[r].repo_id = last.repo_id /\ commits[r].author_email = "Alice"

\* the path of a delta
DeltaPath(delta) == IF delta.new_path # None THEN delta.new_path[1] ELSE delta.old_path[1]

\* the prefixes in force for a repo: those of the caller's config and the
\* repo's exclude_prefixes
PrefixesOf(id) ==
    { DefaultConfig.path_prefixes[i] : i \in 1..Len(DefaultConfig.path_prefixes) }
        \cup { repos[id].exclude_prefixes[i] : i \in 1..Len(repos[id].exclude_prefixes) }

\* the deltas of a commit that are not binary and whose path starts with none
\* of the prefixes
KeptDeltas(git_commit, prefixes) ==
    SelectSeq(git_commit.deltas,
              LAMBDA d : ~d.binary /\ ~\E prefix \in prefixes : IsPrefix(prefix, DeltaPath(d)))

\* the lines of the deltas, those that are UTF-8, one after the other
RECURSIVE LinesText(_)
LinesText(lines) ==
    IF lines = <<>> THEN EmptyText
    ELSE Concat(IF IsValidUtf8(Head(lines).runs) THEN Head(lines).runs ELSE EmptyText,
                LinesText(Tail(lines)))

RECURSIVE DeltasText(_)
DeltasText(deltas) ==
    IF deltas = <<>> THEN EmptyText
    ELSE Concat(LinesText(Head(deltas).lines), DeltasText(Tail(deltas)))

\* sync_repo is between the upsert_commit and the upsert_patch of this commit
BeingIndexed(repo_id, sha) ==
    /\ sync.pc \in {"files", "patch"}
    /\ sync.repo.repo_id = repo_id
    /\ GitLog[sync.i].sha = sha

\* C20: for any indexed commit, the CommitFile paths persisted by sync_repo
\* are exactly the paths of its non-binary deltas that start with no prefix of
\* the effective list (the config's prefixes and the repo's exclude_prefixes),
\* and the stored patch text is the text of those deltas: it holds no line of
\* a delta whose path starts with such a prefix.
C20_IgnoredPathsLeftOut ==
    \A r \in DOMAIN commits : \A i \in 1..Len(GitLog) :
        (/\ GitLog[i].sha = commits[r].sha
         /\ ~BeingIndexed(commits[r].repo_id, commits[r].sha)) =>
            LET id == commits[r].repo_id
                kept == KeptDeltas(GitLog[i], PrefixesOf(id))
                text == DeltasText(kept)
                stored == { p \in commit_patches : p.repo_id = id /\ p.sha = GitLog[i].sha }
            IN /\ FilePaths(id, GitLog[i].sha) = { DeltaPath(kept[k]) : k \in 1..Len(kept) }
               /\ IF text = EmptyText THEN stored = {}
                  ELSE /\ Cardinality(stored) = 1
                       /\ \A p \in stored : PatchTextOf(p) = text

\* the second commit is indexed for the repo with exclude_prefixes: of its
\* three paths, the one under the config's "vendor/" and the one under the
\* repo's "docs/" are left out
C20_Witness ==
    \E r \in DOMAIN commits :
        /\ commits[r].sha = Sha2
        /\ repos[commits[r].repo_id].exclude_prefixes # <<>>
        /\ ~BeingIndexed(commits[r].repo_id, Sha2)
        /\ FilePaths(commits[r].repo_id, Sha2) = {P_src_a}
        /\ \E p \in commit_patches :
              /\ p.repo_id = commits[r].repo_id
              /\ p.sha = Sha2
              /\ PatchTextOf(p) = << <<"a", 1>>, <<"b", 1>> >>

\* ---------------------------------------------------------------------------
\* SpecSyncErr: sync_repo with the failures of its per-commit steps and of
\* its state write. A failed step pushes a message on summary.errors and the
\* run goes on; the store call that failed has applied the statements that
\* ran before the failing one.
MaxErrors == 2

SyncCommitOf(git_commit, repo_id) ==
    [repo_id |-> repo_id, sha |-> git_commit.sha,
     author_email |-> git_commit.author_email,
     author_time |-> git_commit.author_time,
     subject |-> git_commit.subject, body |-> git_commit.body]

\* summary.errors.push(format!(...)): a message is the step and the commit
PushError(step, sha) == Append(sync.summary.errors, <<step, sha>>)

CanFail == sync.pc # "idle" /\ Len(sync.summary.errors) < MaxErrors

\* a failed upsert_commit after which the files and the patch are still written
continue_to_files == [pc |-> "files", i |-> sync.i]

\* the walk goes on without the commit
continue_after_error == [pc |-> "next", i |-> sync.i + 1]

\* `if let Err(e) = store.upsert_commit(&commit) { ...; continue; }`: the
\* INSERT failed (nothing written) or the FTS insert failed (the row is
\* written, not indexed)
SyncUpsertCommitErr ==
    /\ sync.pc = "upsert"
    /\ CanFail
    /\ UNCHANGED <<mutex, calls>>
    /\ LET commit == SyncCommitOf(GitLog[sync.i], sync.repo.repo_id) IN
       /\ \E at \in 2 .. StmtCount("upsert_commit") :
             IF at = 3 /\ CommitRowids(commit.repo_id, commit.sha) = {}
                       /\ NewRowid(commits) <= MaxSyncRowid
             THEN upsert_commit_stmt(commit, 2, 0)
             ELSE UNCHANGED tables
       /\ last' = [op |-> "upsert_commit", arg |-> commit, ok |-> FALSE,
                   err |-> "Sqlite"]
       /\ sync' = [sync EXCEPT !.pc = continue_after_error.pc,
                               !.i = continue_after_error.i,
                               !.summary.errors = PushError("upsert_commit", commit.sha)]

\* get_commit_files or upsert_commit_files failed: the message is pushed and
\* the patch is handled next; a failed INSERT leaves the rows before it
SyncFilesErr ==
    /\ sync.pc = "files"
    /\ CanFail
    /\ UNCHANGED <<mutex, calls>>
    /\ LET files == get_commit_files(GitLog[sync.i], sync.repo.repo_id,
                                     effective_config(sync.repo, sync.config))
       IN /\ \E k \in 0 .. Len(files) - 1 :
                IF k = 0 THEN UNCHANGED tables
                ELSE upsert_commit_files(SubSeq(files, 1, k))
          /\ last' = [op |-> "upsert_commit_files", arg |-> files, ok |-> FALSE,
                      err |-> "Sqlite"]
    /\ sync' = [sync EXCEPT !.pc = "patch",
                            !.summary.errors = PushError("files", GitLog[sync.i].sha)]

\* get_patch_text, zstd or upsert_patch failed: the message is pushed and the
\* commit is counted; a failure after the first statement of upsert_patch
\* leaves the commit_patches row
SyncPatchErr ==
    /\ sync.pc = "patch"
    /\ CanFail
    /\ UNCHANGED <<mutex, calls>>
    /\ LET git_commit == GitLog[sync.i]
           text == get_patch_text(git_commit, effective_config(sync.repo, sync.config))
       IN /\ \E at \in 1 .. 2 :
                IF at = 2 /\ text # None
                THEN upsert_patch_stmt(SyncCommitPatch(sync.repo.repo_id,
                                                       git_commit.sha, text[1]), 1, None)
                ELSE UNCHANGED tables
          /\ last' = [op |-> "upsert_patch", arg |-> git_commit.sha, ok |-> FALSE,
                      err |-> "Sqlite"]
          /\ sync' = [sync EXCEPT !.pc = "next", !.i = @ + 1,
                                  !.summary.commits_indexed = @ + 1,
                                  !.summary.errors = PushError("patch", git_commit.sha)]

\* `if let Err(e) = store.update_ingest_state(..) { errors.push(..) }` and
\* Ok(summary) all the same
SyncFinishErr ==
    /\ sync.pc = "next"
    /\ UNCHANGED <<mutex, calls>>
    /\ sync.i > Len(GitLog)
    /\ LET errors == PushError("update_ingest_state", <<>>) IN
       last' = [op |-> "sync_repo", arg |-> sync.repo.name, ok |-> TRUE,
                state_err |-> "Sqlite",
                repo_id |-> sync.repo.repo_id,
                summary |-> [sync.summary EXCEPT !.errors = errors]]
    /\ UNCHANGED tables
    /\ sync' = NoSync

NextSyncErr ==
    \/ CallAddRepo({ r \in SyncRepoInputs : r.author_filter # None })
    \/ SyncStart
    \/ SyncNext
    \/ ResyncUpsertCommit
    \/ SyncFiles
    \/ SyncPatch
    \/ SyncFinish
    \/ SyncUpsertCommitErr
    \/ SyncFilesErr
    \/ SyncPatchErr
    \/ SyncFinishErr

SpecSyncErr == Init /\ [][NextSyncErr]_vars

\* the commit of the walk is in the store for the repo
Stored(repo_id, git_commit) == CommitRowids(repo_id, git_commit.sha) # {}

PassesFilter(repo_id, git_commit) ==
    repos[repo_id].author_filter # None
        => eq_ignore_ascii_case(git_commit.author_email, repos[repo_id].author_filter[1])

\* C21: at every point of a sync_repo run, including when the run is cut off
\* between two commits or when a per-commit step fails, the commits of the
\* repo present in the store form a historical prefix of the oldest-first
\* walk: if a commit is stored, every commit the walk yields before it that
\* passes the author filter is stored too.
C21_StoredCommitsAreAPrefix ==
    \A id \in DOMAIN repos : \A k \in 1 .. Len(GitLog) : \A j \in 1 .. k - 1 :
        (Stored(id, GitLog[k]) /\ PassesFilter(id, GitLog[j])) => Stored(id, GitLog[j])

\* a step in which the sync_repo in progress returns
SyncReturns == sync.pc # "idle" /\ sync'.pc = "idle"

\* C27: after every sync_repo that returns Ok and whose state write succeeds,
\* ingest_state holds exactly one row for the repo, with last_synced_sha
\* equal to the resolved tip OID and last_error equal to the last entry of
\* that sync's summary.errors (null when the sync produced no warning, which
\* clears an error recorded by an earlier sync); if the state write fails the
\* sync still returns Ok with one more entry in errors.
C27_IngestStateAfterSync ==
    [][ SyncReturns =>
          LET id == sync.repo.repo_id
              errors == last'.summary.errors
          IN /\ last'.op = "sync_repo" /\ last'.ok
             /\ IF "state_err" \in DOMAIN last'
                THEN /\ Len(errors) = Len(sync.summary.errors) + 1
                     /\ ingest_state' = ingest_state
                ELSE /\ errors = sync.summary.errors
                     /\ Cardinality({ r \in DOMAIN ingest_state' : r = id }) = 1
                     /\ ingest_state'[id].last_synced_sha = Some(GitLog[Len(GitLog)].sha)
                     /\ ingest_state'[id].last_error =
                          IF errors = <<>> THEN None ELSE Some(errors[Len(errors)])
                     /\ \A r \in DOMAIN ingest_state :
                           r # id => /\ r \in DOMAIN ingest_state'
                                     /\ ingest_state'[r] = ingest_state[r] ]_vars

\* a sync with two failed steps has returned and its state write succeeded:
\* the row holds the tip and the second message
C27_Witness ==
    /\ last.op = "sync_repo"
    /\ "state_err" \notin DOMAIN last
    /\ Len(last.summary.errors) = 2
    /\ last.summary.errors[1] # last.summary.errors[2]
    /\ last.repo_id \in DOMAIN ingest_state
    /\ ingest_state[last.repo_id].last_error = Some(last.summary.errors[2])
    /\ ingest_state[last.repo_id].last_synced_sha = Some(Sha3)

\* ---------------------------------------------------------------------------
\* SpecBackfill: one thread that registers a repo, stores commits and
\* patches, and runs embed_pending; nothing else touches the store while
\* embed_pending runs. In SpecBackfillOk every embed call answers a vector
\* and the runtime keeps polling the embed_pending future.

\* a preview of 451 characters and 1801 bytes: byte 1600 is inside a
\* four-byte character
T_emoji == << <<"a", 1>>, <<"E", 450>> >>

BackfillCommits ==
    MakeCommits({1}, {Sha1, Sha2}, {[subject |-> T_a, body |-> None, author_time |-> 1]})

BackfillPatches ==
    MakePatches({1}, {Sha1}, { [patch_blob |-> Raw(T_a), patch_preview |-> T_a],
                               [patch_blob |-> Raw(T_a), patch_preview |-> T_emoji] })

\* the calls made between two embed_pending runs
BackfillSetup ==
    /\ calls[1].op = "idle"
    /\ \/ CallAddRepo({[name |-> "alpha", author_filter |-> None,
                        exclude_prefixes |-> <<>>]})
       \/ 1 \in DOMAIN repos /\ CallUpsertCommit(BackfillCommits, MaxRowid)
       \/ 1 \in DOMAIN repos /\ CallUpsertPatch(BackfillPatches)

\* the steps of embed_pending when every embed and store call succeeds
BackfillOkSteps ==
    \/ EmbedPendingFetchLock(1)
    \/ EmbedPendingFetch(1)
    \/ EmbedPendingPanic(1)
    \/ EmbedPendingEmbedOk(1)
    \/ EmbedPendingStoreLock(1)
    \/ EmbedPendingStore(1)

NextBackfillOk ==
    \/ BackfillSetup
    \/ EmbedPendingStart(1, {1}, {1, 2})
    \/ BackfillOkSteps

SpecBackfillOk == Init /\ [][NextBackfillOk]_vars /\ WF_vars(BackfillOkSteps)

NextBackfill ==
    \/ NextBackfillOk
    \/ EmbedPendingEmbedErr(1)

SpecBackfill == Init /\ [][NextBackfill]_vars

\* the commits of the repo without a commit_embed_map entry
PendingOf(repo_id) ==
    { r \in DOMAIN commits :
        commits[r].repo_id = repo_id /\ EmbedIds(repo_id, commits[r].sha) = {} }

\* embed_pending is running in thread 1
Backfilling == calls[1].op = "embed_pending"

\* the commits the run has embedded: those counted in `embedded` and the one
\* whose store_embedding has written its commit_embed_map row and has not
\* returned yet
Embedded(c, returned) ==
    IF c.op = "embed_pending"
    THEN c.summary.embedded + (IF c.stage = "store" /\ c.pc > 1 THEN 1 ELSE 0)
    ELSE returned.summary.embedded

\* C22: if every embed call and every store_embedding call succeeds,
\* embed_pending(repo_id, batch_size >= 1) terminates and returns a summary
\* with failed == 0 and embedded equal to the number of commits of the repo
\* that had no commit_embed_map entry at the start; afterwards
\* get_commits_without_embeddings(repo_id, any limit) is empty. The count is
\* stated step by step: embedded is 0 at the start, the commits embedded
\* plus the commits without an entry never change in number during the run,
\* and no commit is without an entry when it returns.
C22_BackfillTerminates ==
    /\ [][ /\ (~Backfilling /\ Backfilling') => calls'[1].summary.embedded = 0
           /\ (Backfilling /\ calls'[1].op # "panicked") =>
                \A id \in {calls[1].arg.repo_id} :
                /\ Embedded(calls'[1], last') + Cardinality(PendingOf(id)')
                     = Embedded(calls[1], last) + Cardinality(PendingOf(id))
                /\ calls'[1].op = "idle" =>
                     /\ last'.summary.failed = 0
                     /\ PendingOf(id)' = {}
                     /\ \A limit \in 1 .. MaxRowid, tie \in TieOrders :
                           get_commits_without_embeddings(id, limit, tie)' = <<>> ]_vars
    /\ (Backfilling ~> calls[1].op = "idle")

\* the batch a fetch of the running embed_pending can return
BatchesNow ==
    { get_commits_without_embeddings(calls[1].arg.repo_id, calls[1].arg.batch_size, tie) :
      tie \in TieOrders }

NoFilter(limit) == [since |-> None, repos |-> None, paths |-> None, limit |-> limit]

\* C24: search_semantic with no repos filter (opts.repos absent) and no since
\* filter returns the k nearest stored embeddings across all repos, ordered
\* by ascending distance (k = 10 when no limit is given); with a repos filter
\* it returns only rows whose repo_name is in the given list.
C24_SemanticNearest ==
    \A q \in QueryVectors, tie \in TieOrders :
        /\ \A limit \in {None, Some(1)} :
              LET k == IF limit = None THEN 10 ELSE limit[1]
                  nearest == Take(OrderByDistance(DOMAIN commit_embeddings, q, tie), k)
                  found == search_semantic(q, NoFilter(limit), tie)
              IN /\ Len(found) = Len(nearest)
                 /\ \A i \in 1..Len(found) :
                       /\ found[i].sha = commit_embeddings[nearest[i]].sha
                       /\ found[i].repo = commit_embeddings[nearest[i]].repo_name
        /\ \A name \in RepoNames :
              LET found == search_semantic(q, OnlyRepo(name), tie) IN
              \A i \in 1..Len(found) : found[i].repo = name

\* ---------------------------------------------------------------------------
\* SpecSearch: two repos, their commits and file lists, and search under
\* every combination of the since, repos, paths and limit options.
SearchCommits ==
    MakeCommits({1}, {Sha1, Sha2}, CommitContents)
        \cup MakeCommits({2}, {Sha1}, {[subject |-> T_a, body |-> None, author_time |-> 2]})

SearchFileLists ==
    { << [repo_id |-> id, sha |-> sha, path |-> path, status |-> "M",
          old_path |-> None] >> :
      id \in {1}, sha \in {Sha1, Sha2}, path \in {P_src_a, P_docs_r} }

NextSearch ==
    \/ CallAddRepo(RepoInputs)
    \/ CallUpsertCommit(SearchCommits, MaxRowid)
    \/ CallUpsertCommitFiles(SearchFileLists)

SpecSearch == Init /\ [][NextSearch]_vars

\* the path filters asked: a directory, and a directory with any one
\* character after it
SearchOptsAsked ==
    [since : {None, Some(2)},
     repos : {None, Some(<<"alpha">>), Some(<<"beta", "alpha">>)},
     paths : {None, Some(<< <<"docs/">> >>), Some(<< <<"vendor/">>, <<"src/", "_">> >>)},
     limit : {None, Some(1)}]

\* what a search may promise of its results, `contains` being the test a
\* path filter stands for
SearchResultsSatisfy(contains(_, _)) ==
    \A query \in {{T_a}, {T_b}}, opts \in SearchOptsAsked, tie \in TieOrders :
        LET found == search(query, opts, tie)
            q == search_sql(query, opts)
        IN /\ \A i \in 1..Len(found) :
                 \E r \in fts_match(commits_fts, query) \cap DOMAIN commits :
                    /\ commits[r].sha = found[i].sha
                    /\ commits[r].repo_id \in RepoIdsByName(found[i].repo)
                    /\ opts.since # None => commits[r].author_time >= opts.since[1]
                    /\ opts.repos # None =>
                         \E k \in 1..Len(opts.repos[1]) : found[i].repo = opts.repos[1][k]
                    /\ opts.paths # None =>
                         \E path \in FilePaths(commits[r].repo_id, commits[r].sha) :
                            \E k \in 1..Len(opts.paths[1]) : contains(opts.paths[1][k], path)
           /\ \A i \in 1..Len(found) : \A j \in i..Len(found) :
                 found[i].date >= found[j].date
           /\ Len(found) <= (IF opts.limit = None THEN 50 ELSE opts.limit[1])
           /\ q.all_params[1] = query
           /\ q.has_since => q.all_params[q.since_ph] = opts.since[1]
           /\ q.has_repos =>
                \A k \in 1..Len(opts.repos[1]) : q.all_params[q.repo_ph[k]] = opts.repos[1][k]
           /\ q.all_params[q.limit_ph]
                = (IF opts.limit = None THEN 50 ELSE opts.limit[1])
           /\ Len(q.all_params) = q.limit_ph

\* the LIKE test of a path filter
MatchesLike(pf, path) == like(path, like_pat(pf))

\* the promise holds when "containing" is read as the LIKE pattern %pf%
SearchResultsMatchLike == SearchResultsSatisfy(MatchesLike)

\* C25: every result of search(query, opts) is a commit that matches the
\* query and satisfies each supplied filter (author_time >= since, repo name
\* in repos, at least one file path containing one of paths); results are in
\* non-increasing author_time order and number at most limit (50 when limit
\* is absent); for every combination of present and absent filters each
\* bound value is bound to the placeholder number its SQL condition uses.
C25_SearchResults == SearchResultsSatisfy(IsSubstring)

\* ---------------------------------------------------------------------------
\* SpecDate: format_iso_date applied to timestamps around the epoch (before
\* and after it), in 1972 and in 2000, at the first and the last second of
\* the day.
DayInputs == (-400 .. 800) \cup {10956, 10957, 11015, 11016, 11017, 11322}

DateInputs == { day * 86400 + s : day \in DayInputs, s \in {0, 86399} }
                  \cup {946684800}

\* one call on a store just opened
FormatIsoDate ==
    /\ last.op = "open"
    /\ \E ts \in DateInputs :
          last' = [op |-> "format_iso_date", arg |-> ts, date |-> format_iso_date(ts)]
    /\ UNCHANGED <<tables, sync, mutex, calls>>

NextDate == FormatIsoDate

SpecDate == Init /\ [][NextDate]_vars

\* the proleptic Gregorian calendar
IsLeap(y) == y % 4 = 0 /\ (y % 100 # 0 \/ y % 400 = 0)

DaysInMonth(y, m) ==
    CASE m \in {4, 6, 9, 11} -> 30
      [] m = 2 -> IF IsLeap(y) THEN 29 ELSE 28
      [] OTHER -> 31

RECURSIVE DaysBeforeMonth(_, _)
DaysBeforeMonth(y, m) ==
    IF m = 1 THEN 0 ELSE DaysBeforeMonth(y, m - 1) + DaysInMonth(y, m - 1)

\* the leap years before year y
LeapsBefore(y) == (y - 1) \div 4 - (y - 1) \div 100 + (y - 1) \div 400

\* the days from 1970-01-01 to the date
DaysFromCivil(y, m, d) ==
    365 * (y - 1970) + LeapsBefore(y) - LeapsBefore(1970) + DaysBeforeMonth(y, m) + d - 1

\* C26: for every author_time ts, the date returned by get_commit is the
\* ISO-8601 UTC rendering YYYY-MM-DDTHH:MM:SSZ of ts under the proleptic
\* Gregorian calendar: format_iso_date(0) is 1970-01-01T00:00:00Z,
\* format_iso_date(946684800) is 2000-01-01T00:00:00Z, month is in 1..12, day
\* is valid for the month and year (leap years included), and timestamps
\* before the epoch yield the corresponding date before 1970.
C26_IsoDate ==
    /\ format_iso_date(0)
         = [y |-> 1970, m |-> 1, d |-> 1, hours |-> 0, minutes |-> 0, seconds |-> 0]
    /\ format_iso_date(946684800)
         = [y |-> 2000, m |-> 1, d |-> 1, hours |-> 0, minutes |-> 0, seconds |-> 0]
    /\ last.op = "format_iso_date" =>
         LET ts == last.arg
             date == last.date
         IN /\ date.m \in 1..12
            /\ date.d \in 1..DaysInMonth(date.y, date.m)
            /\ DaysFromCivil(date.y, date.m, date.d) = ts \div 86400
            /\ date.hours \in 0..23 /\ date.minutes \in 0..59 /\ date.seconds \in 0..59
            /\ date.hours * 3600 + date.minutes * 60 + date.seconds = ts % 86400
            /\ ts < 0 => date.y < 1970

\* the same for the timestamps that are not before the epoch
IsoDateFromEpochOn ==
    (last.op = "format_iso_date" /\ last.arg < 0) \/ C26_IsoDate

\* ---------------------------------------------------------------------------
\* SpecFork: sync_repo of a repo whose Repo value has a remote_url and a
\* fork_of, on a history with merges. Every step of the remote fetch and of
\* the fork-of block succeeds or fails; the per-commit steps succeed (the
\* commits of this history change no file). The repo is synced once, with or
\* without its third commit stored beforehand.

\* the parents of the commits 1..5 at local_path: 2 and 3 are branches of 1,
\* 4 merges 3 into 2 and 5 merges 2 into 3 (a criss-cross)
ForkParents == << {}, {1}, {1}, {2, 3}, {2, 3} >>

\* resolve_tip: the local tip
ForkTip == 4

\* what refs/remotes/upstream/{HEAD,main,master} resolve to, if to anything
UpstreamTips == {None, Some(2), Some(5)}

\* the commits reachable from c, c included
RECURSIVE Reach(_)
Reach(c) == {c} \cup UNION { Reach(p) : p \in ForkParents[c] }

\* git_merge_base: a best common ancestor of the two commits
BestCommonAncestors(a, b) ==
    LET common == Reach(a) \cap Reach(b) IN
    { c \in common : \A o \in common \ {c} : c \notin Reach(o) }

\* the results of the calls of the remote fetch and of the fork-of block; a
\* call that is not made has the result "ok"
ForkSteps ==
    { s \in [fetch_all : {"none", "ok", "list_err", "open_err", "fetch_err"},
             fork_of : BOOLEAN,
             find : {"same", "other", "missing"},
             set_url : {"ok", "err"}, create : {"ok", "err"}, fetch : {"ok", "err"},
             upstream_tip : UpstreamTips,
             merge_base : {"ok", "err"}, hide : {"ok", "err"}] :
        /\ ~s.fork_of => /\ s.find = "same" /\ s.fetch = "ok"
                         /\ s.upstream_tip = None
        /\ s.find # "other" => s.set_url = "ok"
        /\ s.find # "missing" => s.create = "ok"
        /\ s.create = "err" => s.fetch = "ok"
        /\ s.upstream_tip = None => s.merge_base = "ok" /\ s.hide = "ok"
        /\ s.merge_base = "err" => s.hide = "ok" }

Warn(failed, message) == IF failed THEN <<message>> ELSE <<>>

\* no warning at all
ForkWarningsSilent(s) == <<>>

\* summary.errors after the remote fetch and the fork-of block
ForkWarnings(s) ==
    Warn(s.fetch_all = "list_err", "failed to list remotes")
    \o Warn(s.fetch_all = "open_err", "failed to open remote")
    \o Warn(s.fetch_all = "fetch_err", "failed to fetch remote")
    \o (IF ~s.fork_of THEN <<>>
        ELSE Warn(s.set_url = "err", "failed to update upstream remote URL")
             \o Warn(s.create = "err", "failed to add upstream remote")
             \o Warn(s.fetch = "err", "failed to fetch upstream")
             \o (IF s.upstream_tip = None
                 THEN <<"could not resolve upstream tip">>
                 ELSE IF s.merge_base = "err"
                 THEN <<"no merge base with upstream">>
                 ELSE Warn(s.hide = "err", "failed to hide upstream commits")))

\* the commits revwalk.hide(base_oid) takes out of the walk
ForkHidden(s, base_oid) ==
    IF s.fork_of /\ s.upstream_tip # None /\ s.merge_base = "ok" /\ s.hide = "ok"
    THEN Reach(base_oid)
    ELSE {}

\* the commits of a set, parents before children (Sort::TOPOLOGICAL |
\* Sort::REVERSE): the numbers of the history grow from parent to child
RECURSIVE Revwalk(_)
Revwalk(S) ==
    IF S = {} THEN <<>>
    ELSE LET c == CHOOSE x \in S : \A y \in S : x <= y IN <<c>> \o Revwalk(S \ {c})

ForkSyncStart ==
    /\ sync.pc = "idle"
    /\ UNCHANGED <<mutex, calls>>
    /\ \E id \in DOMAIN repos \ DOMAIN ingest_state, s \in ForkSteps :
          \E base_oid \in (IF s.upstream_tip = None THEN {ForkTip}
                           ELSE BestCommonAncestors(ForkTip, s.upstream_tip[1])) :
             sync' = [pc |-> "walk",
                      repo |-> [repo_id |-> id, name |-> repos[id].name,
                                author_filter |-> repos[id].author_filter,
                                exclude_prefixes |-> repos[id].exclude_prefixes],
                      steps |-> s,
                      walk |-> Revwalk(Reach(ForkTip) \ ForkHidden(s, base_oid)),
                      i |-> 1,
                      summary |-> [NewSummary(repos[id].name) EXCEPT
                                     !.errors = ForkWarnings(s)]]
    /\ UNCHANGED <<tables, last>>

\* the loop body for one commit of the walk
ForkSyncCommit ==
    /\ sync.pc = "walk"
    /\ UNCHANGED <<mutex, calls>>
    /\ sync.i <= Len(sync.walk)
    /\ LET c == sync.walk[sync.i]
           commit == [repo_id |-> sync.repo.repo_id, sha |-> ShaOf(c),
                      author_email |-> "alice", author_time |-> c,
                      subject |-> T_a, body |-> None]
       IN IF commit_exists(commit.repo_id, commit.sha)
          THEN /\ sync' = [sync EXCEPT !.i = @ + 1,
                                       !.summary.commits_already_indexed = @ + 1]
               /\ UNCHANGED <<tables, last>>
          ELSE IF /\ sync.repo.author_filter # None
                  /\ ~eq_ignore_ascii_case(commit.author_email, sync.repo.author_filter[1])
          THEN /\ sync' = [sync EXCEPT !.i = @ + 1, !.summary.commits_filtered = @ + 1]
               /\ UNCHANGED <<tables, last>>
          ELSE /\ NewRowid(commits) <= MaxSyncRowid
               /\ upsert_commit(commit)
               /\ last' = [op |-> "upsert_commit", arg |-> commit, ok |-> TRUE,
                           again |-> Again("upsert_commit", commit)]
               /\ sync' = [sync EXCEPT !.i = @ + 1, !.summary.commits_indexed = @ + 1]

ForkSyncFinish ==
    /\ sync.pc = "walk"
    /\ UNCHANGED <<mutex, calls>>
    /\ sync.i > Len(sync.walk)
    /\ update_ingest_state([repo_id |-> sync.repo.repo_id, last_synced_at |-> Now,
                            last_synced_sha |-> Some(ShaOf(ForkTip)),
                            last_error |-> last_error(sync.summary.errors)])
    /\ last' = [op |-> "sync_repo", arg |-> sync.repo.name, ok |-> TRUE,
                again |-> Again("sync_repo", sync.repo.name),
                repo_id |-> sync.repo.repo_id, summary |-> sync.summary,
                upstream |-> IF ForkHidden(sync.steps, ForkTip) = {} THEN None
                             ELSE sync.steps.upstream_tip,
                walk |-> sync.walk]
    /\ sync' = NoSync

NextFork ==
    \/ CallAddRepo({[name |-> "alpha", author_filter |-> None, exclude_prefixes |-> <<>>]})
    \/ /\ sync.pc = "idle"
       /\ DOMAIN repos # {}
       /\ ingest_state = <<>>
       /\ CallUpsertCommit(MakeCommits({1}, {ShaOf(3)},
                                       {[subject |-> T_a, body |-> None,
                                         author_time |-> 3]}), 1)
    \/ ForkSyncStart
    \/ ForkSyncCommit
    \/ ForkSyncFinish

SpecFork == Init /\ [][NextFork]_vars

Walked(walk) == { walk[i] : i \in 1..Len(walk) }

\* C28: with fork_of set and an upstream tip that resolves, sync_repo
\* persists and counts no commit that is reachable from the upstream tip: for
\* every commit DAG, including histories with several best common ancestors
\* of the local and upstream tips, exactly the commits reachable from the
\* local tip and not reachable from upstream are walked. Stated for the runs
\* in which the merge base is found and hidden (`upstream` is their upstream
\* tip).
C28_UpstreamCommitsHidden ==
    (last.op = "sync_repo" /\ "upstream" \in DOMAIN last /\ last.upstream # None)
    => LET own == Reach(ForkTip) \ Reach(last.upstream[1]) IN
       /\ Walked(last.walk) = own
       /\ last.summary.commits_indexed + last.summary.commits_already_indexed
            = Cardinality(own)

\* the same when the two tips have one best common ancestor
OneMergeBaseHidden ==
    (last.op = "sync_repo" /\ "upstream" \in DOMAIN last /\ last.upstream # None)
        => \/ Cardinality(BestCommonAncestors(ForkTip, last.upstream[1])) > 1
           \/ C28_UpstreamCommitsHidden

\* the steps of the remote fetch and of the fork-of block that failed
FailedSteps(s) ==
    { step \in {"fetch_all", "set_url", "create", "fetch", "upstream_tip",
                "merge_base", "hide"} :
        CASE step = "fetch_all" -> s.fetch_all \in {"list_err", "open_err", "fetch_err"}
          [] step = "upstream_tip" -> s.fork_of /\ s.upstream_tip = None
          [] OTHER -> s[step] = "err" }

\* C29: no failure of a remote fetch or of any fork-of step (create or update
\* the upstream remote, fetch it, resolve its tip, compute the merge base,
\* hide it) makes sync_repo return Err: each such failure adds a warning to
\* summary.errors, and the walk then proceeds over the commits reachable from
\* the local tip.
C29_ForkFailuresAreWarnings ==
    /\ [](sync.pc = "walk" =>
            /\ Walked(sync.walk) \subseteq Reach(ForkTip)
            /\ Len(sync.summary.errors) = Cardinality(FailedSteps(sync.steps))
            /\ ({"upstream_tip", "merge_base", "hide"} \cap FailedSteps(sync.steps) # {}
                \/ ~sync.steps.fork_of)
                   => Walked(sync.walk) = Reach(ForkTip))
    /\ [][ (sync.pc = "idle" /\ sync'.pc # "idle") => sync'.pc = "walk" ]_vars
    /\ [][ (sync.pc = "walk" /\ sync'.pc = "idle") =>
             /\ last'.op = "sync_repo" /\ last'.ok
             /\ sync.i > Len(sync.walk)
             /\ last'.summary.errors = sync.summary.errors
             /\ last'.summary.commits_indexed + last'.summary.commits_already_indexed
                  = Len(sync.walk) ]_vars

\* a sync whose upstream fetch and merge base failed has returned Ok with
\* the two warnings, after a walk over the four commits of the local tip
C29_Witness ==
    /\ last.op = "sync_repo"
    /\ last.ok
    /\ "walk" \in DOMAIN last
    /\ last.summary.errors = <<"failed to fetch upstream", "no merge base with upstream">>
    /\ last.walk = <<1, 2, 3, 4>>
    /\ last.summary.commits_indexed = 3
    /\ last.summary.commits_already_indexed = 1

\* ---------------------------------------------------------------------------
\* The MCP adapter: one JSON-RPC message per line of stdin, one response per
\* request on stdout.

\* touches(path_glob, opts): one row per stored file whose path is LIKE
\* '%path_glob%', joined to its commit and repo, newest commit first
touches_rows(path_glob, opts) ==
    { j \in 1..Len(commit_files) :
        /\ like(commit_files[j].path, like_pat(path_glob))
        /\ \E r \in CommitRowids(commit_files[j].repo_id, commit_files[j].sha) :
              /\ commits[r].repo_id \in DOMAIN repos
              /\ opts.since # None => commits[r].author_time >= opts.since[1]
              /\ opts.repos # None =>
                   \E i \in 1..Len(opts.repos[1]) :
                       repos[commits[r].repo_id].name = opts.repos[1][i] }

RECURSIVE SortByKey(_, _)
SortByKey(J, key) ==
    IF J = {} THEN <<>>
    ELSE LET m == CHOOSE x \in J : \A y \in J : key[x] <= key[y]
         IN <<m>> \o SortByKey(J \ {m}, key)

\* rows of equal author_time come in the order `tie` gives their commits,
\* the files of one commit in the order of the table
touches(path_glob, opts, tie) ==
    LET J == touches_rows(path_glob, opts)
        row(j) == CHOOSE r \in CommitRowids(commit_files[j].repo_id, commit_files[j].sha) : TRUE
        order == OrderByAuthorTimeDesc({ row(j) : j \in J }, tie)
        pos(j) == CHOOSE i \in 1..Len(order) : order[i] = row(j)
        sorted == SortByKey(J, [j \in J |-> pos(j) * (Len(commit_files) + 1) + j])
        rows == Take(sorted, IF opts.limit = None THEN 50 ELSE opts.limit[1])
    IN [i \in 1..Len(rows) |->
          [path |-> commit_files[rows[i]].path,
           status |-> commit_files[rows[i]].status,
           sha |-> commit_files[rows[i]].sha,
           subject |-> commits[row(rows[i])].subject,
           date |-> commits[row(rows[i])].author_time,
           repo |-> repos[commits[row(rows[i])].repo_id].name]]

\* Result<String, String>
ToolOk(text) == [ok |-> TRUE, text |-> text]
ToolErr(msg) == [ok |-> FALSE, text |-> msg]

\* serde_json::to_string
to_string(value) == <<"json", value>>

\* json!({}): an object with no member
NoArguments ==
    [object |-> TRUE, wrong |-> {}, query |-> None, since |-> None, repos |-> None,
     paths |-> None, limit |-> None, path_glob |-> None, repo |-> None, sha |-> None,
     max_bytes |-> None]

\* serde_json::from_value into a struct: the value is an object, every
\* member of a non-Option field is there, no member of the struct has a value
\* of another type (`wrong`); members the struct does not name are ignored
from_value_ok(required, optional, arguments) ==
    /\ arguments.object
    /\ \A f \in required : arguments[f] # None /\ f \notin arguments.wrong
    /\ \A f \in optional : f \notin arguments.wrong

SearchInput == [required |-> {"query"}, optional |-> {"since", "repos", "paths", "limit"}]
TouchesInput == [required |-> {"path_glob"}, optional |-> {"since", "repos", "limit"}]
GetCommitInput == [required |-> {"repo", "sha"}, optional |-> {}]
GetPatchInput == [required |-> {"repo", "sha"}, optional |-> {"max_bytes"}]

\* `st` is what the store does on this call: st.err, the statement fails;
\* st.tie, the order of rows of equal author_time
call_search(arguments, st) ==
    IF ~from_value_ok(SearchInput.required, SearchInput.optional, arguments)
    THEN ToolErr(<<"Invalid arguments for commitmux_search">>)
    ELSE LET opts == [since |-> arguments.since, repos |-> arguments.repos,
                      paths |-> arguments.paths, limit |-> arguments.limit]
         IN IF st.err THEN ToolErr(<<"SQLite error">>)
            ELSE ToolOk(to_string(search(arguments.query[1], opts, st.tie)))

call_touches(arguments, st) ==
    IF ~from_value_ok(TouchesInput.required, TouchesInput.optional, arguments)
    THEN ToolErr(<<"Invalid arguments for commitmux_touches">>)
    ELSE LET opts == [since |-> arguments.since, repos |-> arguments.repos,
                      limit |-> arguments.limit]
         IN IF st.err THEN ToolErr(<<"SQLite error">>)
            ELSE ToolOk(to_string(touches(arguments.path_glob[1], opts, st.tie)))

\* call_get_commit that serialises the Option the store returned
call_get_commit_null(arguments, st) ==
    IF ~from_value_ok(GetCommitInput.required, GetCommitInput.optional, arguments)
    THEN ToolErr(<<"Invalid arguments for commitmux_get_commit">>)
    ELSE IF st.err THEN ToolErr(<<"SQLite error">>)
    ELSE ToolOk(to_string(get_commit(arguments.repo[1], arguments.sha[1], st.tie)))

call_get_commit(arguments, st) ==
    IF ~from_value_ok(GetCommitInput.required, GetCommitInput.optional, arguments)
    THEN ToolErr(<<"Invalid arguments for commitmux_get_commit">>)
    ELSE IF st.err THEN ToolErr(<<"SQLite error">>)
    ELSE LET opt == get_commit(arguments.repo[1], arguments.sha[1], st.tie) IN
         IF opt = None
         THEN ToolErr(<<"Commit ", arguments.repo[1], ":", arguments.sha[1], " not found">>)
         ELSE ToolOk(to_string(opt[1]))

call_get_patch(arguments, st) ==
    IF ~from_value_ok(GetPatchInput.required, GetPatchInput.optional, arguments)
    THEN ToolErr(<<"Invalid arguments for commitmux_get_patch">>)
    ELSE IF st.err THEN ToolErr(<<"SQLite error">>)
    ELSE LET opt == get_patch(arguments.repo[1], arguments.sha[1], arguments.max_bytes) IN
         IF opt.kind = "Err" THEN ToolErr(<<"IO error">>)
         ELSE IF opt.kind = "None"
         THEN ToolErr(<<"Patch ", arguments.repo[1], ":", arguments.sha[1], " not found">>)
         ELSE ToolOk(to_string([repo |-> arguments.repo[1], sha |-> arguments.sha[1],
                            patch_text |-> opt.patch_text]))

handle_tools_call(id, params, st) ==
    LET name == IF params.name = None THEN "" ELSE params.name[1]
        arguments == IF params.arguments = None THEN NoArguments ELSE params.arguments[1]
        result ==
            CASE name = "commitmux_search" -> call_search(arguments, st)
              [] name = "commitmux_touches" -> call_touches(arguments, st)
              [] name = "commitmux_get_commit" -> call_get_commit(arguments, st)
              [] name = "commitmux_get_patch" -> call_get_patch(arguments, st)
              [] OTHER -> ToolErr(<<"Unknown tool: ", name>>)
    IN [jsonrpc |-> "2.0", id |-> id,
        result |-> [content |-> << [type |-> "text", text |-> result.text] >>,
                    isError |-> ~result.ok]]

handle_initialize(id) ==
    [jsonrpc |-> "2.0", id |-> id,
     result |-> [protocolVersion |-> "2024-11-05", serverInfo |-> "commitmux"]]

handle_tools_list(id) ==
    [jsonrpc |-> "2.0", id |-> id,
     result |-> [tools |-> <<"commitmux_search", "commitmux_touches",
                             "commitmux_get_commit", "commitmux_get_patch">>]]

\* json!({}) for a message without params: neither name nor arguments
NoParams == [name |-> None, arguments |-> None]

\* handle_message(raw): None for a line that is not JSON and for a message
\* without id, the response otherwise
handle_message(raw, st) ==
    IF raw.kind # "json" THEN None
    ELSE IF raw.id = None THEN None
    ELSE LET id == raw.id[1]
             method == IF raw.method = None THEN "" ELSE raw.method[1]
         IN Some(CASE method = "initialize" -> handle_initialize(id)
                   [] method = "tools/list" -> handle_tools_list(id)
                   [] method = "tools/call" ->
                        handle_tools_call(id, IF raw.params = None THEN NoParams
                                              ELSE raw.params[1], st)
                   [] OTHER -> [jsonrpc |-> "2.0", id |-> id,
                                error |-> [code |-> -32601,
                                           message |-> <<"Method not found: ", method>>]])

\* the arguments members asked: for the commit stored, a sha no commit has,
\* a repo only, a search and a file query, members of the
\* wrong type, and a value that is no object
CommitArguments(repo, sha) == [NoArguments EXCEPT !.repo = Some(repo), !.sha = Some(sha)]

McpArguments ==
    { NoArguments,
      [NoArguments EXCEPT !.object = FALSE],
      CommitArguments("alpha", Sha1),
      CommitArguments("alpha", <<"d">>),
      [CommitArguments("alpha", Sha1) EXCEPT !.max_bytes = Some(1)],
      [CommitArguments("alpha", Sha1) EXCEPT !.wrong = {"max_bytes"}],
      [NoArguments EXCEPT !.repo = Some("alpha")],
      [NoArguments EXCEPT !.query = Some({T_a}), !.path_glob = Some(<<"src/">>)],
      [NoArguments EXCEPT !.query = Some({T_a}), !.path_glob = Some(<<"src/">>),
                          !.wrong = {"limit"}] }

McpToolNames ==
    {"commitmux_search", "commitmux_touches", "commitmux_get_commit", "commitmux_get_patch"}

McpParams ==
    [name : {None, Some("commitmux_nope")} \cup { Some(n) : n \in McpToolNames },
     arguments : {None} \cup { Some(a) : a \in McpArguments }]

\* the lines of stdin: a read error, a blank line, a line that is not JSON,
\* and messages with or without id, method and params
McpLines ==
    [kind : {"io_err", "blank", "malformed"}, id : {None}, method : {None}, params : {None}]
    \cup [kind : {"json"}, id : {None, Some("1"), Some("null")},
          method : {None, Some("initialize"), Some("tools/list"), Some("bogus")},
          params : {None}]
    \cup [kind : {"json"}, id : {Some("1")}, method : {Some("tools/call")},
          params : {None} \cup { Some(p) : p \in McpParams }]
    \cup [kind : {"json"}, id : {None, Some("null")}, method : {Some("tools/call")},
          params : {None, Some([name |-> Some("commitmux_get_commit"),
                                arguments |-> Some(CommitArguments("alpha", Sha1))])}]

\* the line makes a call of the store
CallsStore(line) ==
    /\ line.kind = "json" /\ line.id # None /\ line.method = Some("tools/call")
    /\ line.params # None
    /\ line.params[1].name # None
    /\ line.params[1].arguments # None
    /\ LET name == line.params[1].name[1]
           a == line.params[1].arguments[1]
       IN \/ name = "commitmux_search"
             /\ from_value_ok(SearchInput.required, SearchInput.optional, a)
          \/ name = "commitmux_touches"
             /\ from_value_ok(TouchesInput.required, TouchesInput.optional, a)
          \/ name = "commitmux_get_commit"
             /\ from_value_ok(GetCommitInput.required, GetCommitInput.optional, a)
          \/ name = "commitmux_get_patch"
             /\ from_value_ok(GetPatchInput.required, GetPatchInput.optional, a)

\* the response to the line before was a tool result with isError = true
AnsweredError ==
    /\ last.op = "mcp"
    /\ last.out # <<>>
    /\ "result" \in DOMAIN last.out[1]
    /\ "isError" \in DOMAIN last.out[1].result
    /\ last.out[1].result.isError

\* One turn of the loop of run_stdio: read a line, handle it, write the
\* response. A failed read or write returns from run_stdio.
McpLine ==
    \E line \in McpLines, err \in BOOLEAN, tie \in TieOrders, stdout_ok \in BOOLEAN :
        LET st == [err |-> err, tie |-> tie]
            response == handle_message(line, st)
            turn(out, serving) ==
                [op |-> "mcp", line |-> line, st |-> st, stdout_ok |-> stdout_ok,
                 after_error |-> AnsweredError, out |-> out, serving |-> serving]
        IN /\ last.op = "mcp" => last.serving
           /\ err => CallsStore(line)
           /\ tie # "asc" => /\ CallsStore(line)
                             /\ line.params[1].name[1] \in {"commitmux_search",
                                                             "commitmux_touches"}
           /\ ~stdout_ok => response # None
           /\ last' =
                IF line.kind = "io_err"
                THEN turn(<<>>, FALSE)
                ELSE IF line.kind = "blank" \/ response = None
                THEN turn(<<>>, TRUE)
                ELSE IF stdout_ok
                THEN turn(<<response[1]>>, TRUE)
                ELSE turn(<<>>, FALSE)
           /\ UNCHANGED <<tables, sync, mutex, calls>>

McpCommits ==
    MakeCommits({1}, {Sha1}, {[subject |-> T_a, body |-> None, author_time |-> 1]})

McpPatches == MakePatches({1}, {Sha1}, {[patch_blob |-> Raw(T_a), patch_preview |-> T_a]})

McpFileLists ==
    { << [repo_id |-> 1, sha |-> Sha1, path |-> P_src_a, status |-> "M",
          old_path |-> None] >> }

\* the store is filled, then the adapter serves
NextMcp ==
    \/ /\ last.op # "mcp"
       /\ CallAddRepo({ r \in RepoInputs : r.name = "alpha" })
    \/ /\ last.op # "mcp"
       /\ CallUpsertCommit(McpCommits, MaxThreadRowid)
    \/ /\ last.op # "mcp"
       /\ CallUpsertPatch(McpPatches)
    \/ /\ last.op # "mcp"
       /\ CallUpsertCommitFiles(McpFileLists)
    \/ McpLine

SpecMcp == Init /\ [][NextMcp]_vars

IsToolsCall(line) == line.kind = "json" /\ line.method = Some("tools/call")

ToolName(line) ==
    IF line.params = None \/ line.params[1].name = None THEN "" ELSE line.params[1].name[1]

ToolArguments(line) ==
    IF line.params = None \/ line.params[1].arguments = None THEN NoArguments
    ELSE line.params[1].arguments[1]

\* the arguments are not what the tool's schema asks: they are no object, a
\* required member is missing, or a member of the tool has the wrong type
InvalidArguments(name, a) ==
    LET required ==
            CASE name = "commitmux_search" -> {"query"}
              [] name = "commitmux_touches" -> {"path_glob"}
              [] OTHER -> {"repo", "sha"}
        members ==
            CASE name = "commitmux_search" -> {"query", "since", "repos", "paths", "limit"}
              [] name = "commitmux_touches" -> {"path_glob", "since", "repos", "limit"}
              [] name = "commitmux_get_commit" -> {"repo", "sha"}
              [] OTHER -> {"repo", "sha", "max_bytes"}
    IN \/ ~a.object
       \/ \E f \in required : a[f] = None
       \/ a.wrong \cap members # {}

\* the cases in which the answer to a tools/call is an error: an unknown
\* tool, invalid arguments, a store error, a commit or a patch that is not
\* in the store
ToolFails(line, st) ==
    LET name == ToolName(line)
        a == ToolArguments(line)
    IN \/ name \notin McpToolNames
       \/ InvalidArguments(name, a)
       \/ st.err
       \/ /\ name = "commitmux_get_commit"
          /\ get_commit_rows(a.repo[1], a.sha[1]) = {}
       \/ /\ name = "commitmux_get_patch"
          /\ get_patch_rows(a.repo[1], a.sha[1]) = {}

\* C30: every tools/call request that carries an id, while stdout takes the
\* write, is answered with exactly one response that carries the same id
\* and a result with one text content; isError is true exactly on an unknown
\* tool, invalid arguments, a store error or a missing commit or patch, and
\* false on a success; the adapter goes on serving.
C30_McpAnswersEveryToolsCall ==
    (last.op = "mcp" /\ IsToolsCall(last.line) /\ last.line.id # None /\ last.stdout_ok)
    => /\ Len(last.out) = 1
       /\ last.out[1].id = last.line.id[1]
       /\ "result" \in DOMAIN last.out[1]
       /\ "isError" \in DOMAIN last.out[1].result
       /\ Len(last.out[1].result.content) = 1
       /\ last.out[1].result.content[1].type = "text"
       /\ last.out[1].result.isError = ToolFails(last.line, last.st)
       /\ last.serving

\* a get_commit for a sha no commit of the stored repo has, answered with an
\* error, right after another request was answered with an error
C30_Witness ==
    /\ last.op = "mcp"
    /\ IsToolsCall(last.line)
    /\ last.line.id = Some("1")
    /\ last.after_error
    /\ ToolName(last.line) = "commitmux_get_commit"
    /\ ~InvalidArguments("commitmux_get_commit", ToolArguments(last.line))
    /\ ~last.st.err
    /\ RepoIdsByName("alpha") # {}
    /\ DOMAIN commits # {}
    /\ get_commit_rows("alpha", ToolArguments(last.line).sha[1]) = {}
    /\ Len(last.out) = 1
    /\ last.out[1].result.isError
    /\ last.serving

\* a success follows an error: the patch of a stored commit is returned
McpServesAfterError ==
    /\ last.op = "mcp"
    /\ last.after_error
    /\ ToolName(last.line) = "commitmux_get_patch"
    /\ Len(last.out) = 1
    /\ "isError" \in DOMAIN last.out[1].result
    /\ ~last.out[1].result.isError

\* ---------------------------------------------------------------------------
\* SpecFiles: the file step of sync_repo's loop body, made for a commit each
\* time the loop reaches it: the first time, and again when commit_exists
\* failed for a stored commit ("proceed to index it anyway"). The repo's
\* exclude_prefixes may differ from one sync to the next.
FilesExcludes == { <<>>, << <<"src/">> >>, << <<"docs/">>, <<"vendor/">> >> }

\* rows of commit_files for (repo_id, sha), in table order
FileRows(repo_id, sha) ==
    SelectSeq(commit_files, LAMBDA f : f.repo_id = repo_id /\ f.sha = sha)

ProcessCommitFiles ==
    \E id \in DOMAIN repos, i \in DOMAIN GitLog, excl \in FilesExcludes :
        LET repo == [repo_id |-> id, name |-> repos[id].name, exclude_prefixes |-> excl]
            files == get_commit_files(GitLog[i], id, effective_config(repo, DefaultConfig))
        IN /\ upsert_commit_files(files)
           /\ last' = [op |-> "process_files", repo_id |-> id, sha |-> GitLog[i].sha,
                       arg |-> files,
                       had_rows |-> FileRows(id, GitLog[i].sha) # <<>>]
           /\ UNCHANGED <<sync, mutex, calls>>

NextFiles ==
    \/ CallAddRepo({ r \in RepoInputs : r.name = "alpha" })
    \/ ProcessCommitFiles

SpecFiles == Init /\ [][NextFiles]_vars

\* C31: after a commit was processed, its commit_files rows are exactly the
\* file list of that processing, also when that list is empty and whatever
\* rows the commit had before.
C31_FilesAreTheLastList ==
    last.op = "process_files" => FileRows(last.repo_id, last.sha) = last.arg

\* the same for a list that is not empty: the rows the commit had are
\* replaced, and a repeated list leaves each path once
FilesReplacedByNonEmptyList ==
    (last.op = "process_files" /\ last.arg # <<>>)
    => /\ FileRows(last.repo_id, last.sha) = last.arg
       /\ \A i, j \in 1..Len(commit_files) :
            (/\ commit_files[i].repo_id = commit_files[j].repo_id
             /\ commit_files[i].sha = commit_files[j].sha
             /\ commit_files[i].path = commit_files[j].path) => i = j

\* a commit that had rows is processed again with a list that is not empty
FilesReplacedWitness ==
    /\ last.op = "process_files"
    /\ last.had_rows
    /\ last.arg # <<>>

\* ---------------------------------------------------------------------------
\* the commit_patches rows of (repo_id, sha)
PatchRows(repo_id, sha) == { p \in commit_patches : p.repo_id = repo_id /\ p.sha = sha }

\* the step in which store.upsert_commit returns Err for the commit at hand
UpsertCommitFails ==
    /\ sync.pc = "upsert"
    /\ last'.op = "upsert_commit"
    /\ ~last'.ok

\* C32: when store.upsert_commit fails for a commit during sync_repo, the
\* step writes no commit_files and no commit_patches row, leaves
\* commits_indexed as it is, adds one entry to summary.errors and moves to the
\* next commit of the walk; and no step of a sync writes file or patch rows
\* of a commit other than the one the loop is at, so the sync writes none for
\* the commit whose upsert failed.
C32_FailedUpsertSkipsFilesAndPatch ==
    [][ sync.pc # "idle" =>
          /\ \A j \in 1 .. Len(GitLog), id \in {sync.repo.repo_id} :
                (j # sync.i \/ UpsertCommitFails) =>
                    /\ FileRows(id, GitLog[j].sha)' = FileRows(id, GitLog[j].sha)
                    /\ PatchRows(id, GitLog[j].sha)' = PatchRows(id, GitLog[j].sha)
          /\ UpsertCommitFails =>
                /\ sync'.summary.commits_indexed = sync.summary.commits_indexed
                /\ sync'.summary.errors =
                     Append(sync.summary.errors, <<"upsert_commit", GitLog[sync.i].sha>>)
                /\ sync'.pc = "next"
                /\ sync'.i = sync.i + 1 ]_vars

\* upsert_commit failed for the first commit of the walk, the second one was
\* indexed, and the first has neither file rows nor a patch row
C32_Witness ==
    /\ sync.pc = "next"
    /\ sync.summary.errors # <<>>
    /\ sync.summary.errors[1] = <<"upsert_commit", GitLog[1].sha>>
    /\ sync.summary.commits_indexed = 1
    /\ FileRows(sync.repo.repo_id, GitLog[1].sha) = <<>>
    /\ PatchRows(sync.repo.repo_id, GitLog[1].sha) = {}
    /\ FileRows(sync.repo.repo_id, GitLog[2].sha) # <<>>

\* ---------------------------------------------------------------------------
\* SpecPatch: get_patch_text applied to commits of one or two deltas (a
\* source file with up to two lines, an ignored file, a binary file) under
\* small values of max_patch_bytes.
PatchLines == { Raw(T_a), Raw(Rep("b", 3)), Raw(Rep("L", 1)), Raw(B_invalid) }

PatchLineLists ==
    { <<>> } \cup { <<x>> : x \in PatchLines } \cup { <<x, y>> : x, y \in PatchLines }

PatchDeltas ==
    { [status |-> "Modified", new_path |-> Some(P_src_a), old_path |-> Some(P_src_a),
       binary |-> FALSE, lines |-> ls] : ls \in PatchLineLists }
    \cup { [status |-> "Modified", new_path |-> Some(P_vendor_x), old_path |-> Some(P_vendor_x),
            binary |-> FALSE, lines |-> << Raw(T_a) >>],
           [status |-> "Added", new_path |-> Some(P_src_b), old_path |-> None,
            binary |-> TRUE, lines |-> << Raw(T_a) >>] }

PatchByteBounds == {2, 3, 5}

GetPatchText ==
    /\ last.op = "open"
    /\ \E deltas \in { <<d>> : d \in PatchDeltas } \cup { <<d, f>> : d, f \in PatchDeltas },
          max \in PatchByteBounds :
          LET config == [DefaultConfig EXCEPT !.max_patch_bytes = max]
              commit == [sha |-> Sha1, deltas |-> deltas]
          IN last' = [op |-> "get_patch_text", arg |-> commit, config |-> config,
                      text |-> get_patch_text(commit, config)]
    /\ UNCHANGED <<tables, sync, mutex, calls>>

NextPatch == GetPatchText

SpecPatch == Init /\ [][NextPatch]_vars

\* the path diff.print's callback tests: the new file's, else the old file's
PatchPath(delta) == IF delta.new_path # None THEN delta.new_path ELSE delta.old_path

\* the valid-UTF-8 lines of the non-binary, non-ignored deltas, in diff order
RECURSIVE KeptLines(_, _)
KeptLines(deltas, config) ==
    IF deltas = <<>> THEN <<>>
    ELSE LET d == Head(deltas)
             skip == d.binary \/ (PatchPath(d) # None /\ is_ignored(PatchPath(d)[1], config))
         IN (IF skip THEN <<>>
             ELSE SelectSeq(d.lines, LAMBDA l : IsValidUtf8(l.runs)))
            \o KeptLines(Tail(deltas), config)

RECURSIVE ConcatLines(_)
ConcatLines(lines) ==
    IF lines = <<>> THEN EmptyText
    ELSE Concat(ConcatLines(SubSeq(lines, 1, Len(lines) - 1)), lines[Len(lines)].runs)

\* the text returned, empty for None
PatchTextReturned == IF last.text = None THEN EmptyText ELSE last.text[1]

\* C33: the patch text is the concatenation of the first k kept lines, for
\* the k at which the walk over the lines stops: its byte length is at most
\* max_patch_bytes, and k is the number of lines before the first one that
\* would make the total exceed the bound (all of them if none would).
C33_PatchTextIsBoundedPrefix ==
    last.op = "get_patch_text" =>
        LET kept == KeptLines(last.arg.deltas, last.config)
            max == last.config.max_patch_bytes
        IN \E k \in 0 .. Len(kept) :
              /\ PatchTextReturned = ConcatLines(SubSeq(kept, 1, k))
              /\ ByteLen(PatchTextReturned) <= max
              /\ \A j \in 1 .. k : ByteLen(ConcatLines(SubSeq(kept, 1, j))) <= max
              /\ k < Len(kept) =>
                    ByteLen(PatchTextReturned) + ByteLen(kept[k + 1].runs) > max

\* a line of three bytes did not fit after one byte under a bound of 3, and
\* the one-byte line after it, which would fit, is not in the text
C33_Witness ==
    /\ last.op = "get_patch_text"
    /\ last.config.max_patch_bytes = 3
    /\ KeptLines(last.arg.deltas, last.config) = << Raw(T_a), Raw(Rep("b", 3)), Raw(T_a) >>
    /\ last.text = Some(T_a)

\* ---------------------------------------------------------------------------
\* SpecEmbedDoc: build_embed_doc applied to EmbedCommits whose patch_preview
\* is absent, blank, or made of characters of 1 to 4 bytes, shorter and
\* longer than 1600 bytes.
EmbedDocPreviews ==
    { None, Some(Rep(" ", 2)) }
    \cup { Some(Rep(ch, n)) : ch \in {"a", "L", "R", "E"},
                              n \in {1, 400, 533, 534, 800, 1600, 1601, 2000} }
    \cup { Some(<< <<"a", k>>, <<"E", 450>> >>) : k \in 1 .. 4 }

BuildEmbedDoc ==
    /\ last.op = "open"
    /\ \E subject \in {T_a, T_b, T_a_b}, preview \in EmbedDocPreviews :
          LET commit == [subject |-> subject, patch_preview |-> preview] IN
          last' = [op |-> "build_embed_doc", arg |-> commit, doc |-> build_embed_doc(commit)]
    /\ UNCHANGED <<tables, sync, mutex, calls>>

NextEmbedDoc == BuildEmbedDoc

SpecEmbedDoc == Init /\ [][NextEmbedDoc]_vars

\* what the claim asks of the document built for a commit
EmbedDocIsCut(commit, doc) ==
    /\ ~doc.panic
    /\ doc.subject = commit.subject
    /\ doc.patch # None =>
          /\ ByteLen(doc.patch[1]) <= EMBED_PREVIEW_BYTES
          /\ \/ doc.patch = commit.patch_preview
             \/ /\ ByteLen(commit.patch_preview[1]) > EMBED_PREVIEW_BYTES
                /\ \E k \in 1 .. CharLen(commit.patch_preview[1]) :
                      doc.patch[1] = TakeChars(commit.patch_preview[1], k)
    /\ commit.patch_preview = Some(Rep("a", 2000)) =>
          doc.patch # None /\ ByteLen(doc.patch[1]) = EMBED_PREVIEW_BYTES

\* C34: for every EmbedCommit, also one whose patch_preview is longer than
\* 1600 bytes with multi-byte characters at any offset, build_embed_doc
\* returns a document that starts with the subject and whose patch portion is
\* the preview cut to at most 1600 bytes (exactly 1600 for 2000 one-byte
\* characters).
C34_EmbedDocNeverFails ==
    last.op = "build_embed_doc" => EmbedDocIsCut(last.arg, last.doc)

\* the same, for previews of at most 1600 bytes or with a character boundary
\* at byte 1600
EmbedDocCutOnBoundary ==
    (/\ last.op = "build_embed_doc"
     /\ last.arg.patch_preview # None
     /\ \/ ByteLen(last.arg.patch_preview[1]) <= EMBED_PREVIEW_BYTES
        \/ floor_char_boundary(last.arg.patch_preview[1], EMBED_PREVIEW_BYTES)
             = EMBED_PREVIEW_BYTES)
    => EmbedDocIsCut(last.arg, last.doc)

\* 2000 one-byte characters are cut to 1600
EmbedDocCutWitness ==
    /\ last.op = "build_embed_doc"
    /\ last.arg.patch_preview = Some(Rep("a", 2000))
    /\ last.doc.patch = Some(Rep("a", 1600))

\* ---------------------------------------------------------------------------
\* SpecSyncFatal: SpecSyncErr with the fatal errors of sync_repo before the
\* walk. SpecSyncFull: sync_repo with a commit the walk cannot load, a failed
\* commit_exists and a failed upsert_commit.

\* a fatal error that is recorded in ingest_state before sync_repo returns
sync_fatal_recorded(id, step) ==
    update_ingest_state([repo_id |-> id, last_synced_at |-> Now,
                         last_synced_sha |-> None, last_error |-> Some(step)])

\* `?` on Repository::open, on resolve_tip and on the set-up of the revwalk
\* (revwalk(), push, set_sorting): the function returns before its first
\* store call
sync_fatal(id, step) == UNCHANGED tables

SyncFatalSteps == {"open", "resolve_tip", "revwalk"}

SyncFatal ==
    /\ sync.pc = "idle"
    /\ \E id \in DOMAIN repos, step \in SyncFatalSteps :
          /\ sync_fatal(id, step)
          /\ last' = [op |-> "sync_repo", arg |-> repos[id].name, ok |-> FALSE,
                      err |-> "Ingest", step |-> step, repo_id |-> id]
    /\ UNCHANGED <<sync, mutex, calls>>

\* the revwalk yields Err for an oid, or find_commit fails: a message is
\* pushed and the walk goes on
SyncLoadErr ==
    /\ sync.pc = "next"
    /\ sync.i <= Len(GitLog)
    /\ CanFail
    /\ sync' = [sync EXCEPT !.i = @ + 1,
                            !.summary.errors = PushError("load", GitLog[sync.i].sha)]
    /\ UNCHANGED <<tables, last, mutex, calls>>

\* commit_exists returns Err: a warning is pushed and the commit is indexed
\* "anyway", whether it is stored or not
SyncExistsErr ==
    /\ sync.pc = "next"
    /\ sync.i <= Len(GitLog)
    /\ CanFail
    /\ LET git_commit == GitLog[sync.i]
           errors == PushError("commit_exists", git_commit.sha)
       IN IF /\ sync.repo.author_filter # None
             /\ ~eq_ignore_ascii_case(git_commit.author_email, sync.repo.author_filter[1])
          THEN sync' = [sync EXCEPT !.i = @ + 1, !.summary.commits_filtered = @ + 1,
                                    !.summary.errors = errors]
          ELSE sync' = [sync EXCEPT !.pc = "upsert", !.summary.errors = errors]
    /\ UNCHANGED <<tables, last, mutex, calls>>

NextSyncFatal ==
    \/ NextSyncErr
    \/ SyncFatal

SpecSyncFatal == Init /\ [][NextSyncFatal]_vars

NextSyncFull ==
    \/ CallAddRepo({ r \in SyncRepoInputs : r.author_filter # None })
    \/ SyncStart
    \/ SyncNext
    \/ ResyncUpsertCommit
    \/ SyncFiles
    \/ SyncPatch
    \/ SyncFinish
    \/ SyncUpsertCommitErr
    \/ SyncLoadErr
    \/ SyncExistsErr

SpecSyncFull == Init /\ [][NextSyncFull]_vars

\* the step in which a sync_repo returns Err
SyncReturnsErr ==
    /\ sync.pc = "idle"
    /\ last'.op = "sync_repo"
    /\ ~last'.ok

\* C35: whenever sync_repo returns Err (the repository cannot be opened, no
\* tip resolves, or the revision walk cannot be set up), it has made no store
\* write: commits, commit_files, commit_patches, commits_fts and ingest_state
\* are as before the call.
C35_FatalSyncWritesNothing ==
    [][ SyncReturnsErr =>
          UNCHANGED <<commits, commit_files, commit_patches, commits_fts, ingest_state>>
      ]_vars

\* a sync_repo returned Err for a repo with commits and an ingest_state row
\* that records no error
C35_Witness ==
    /\ last.op = "sync_repo"
    /\ ~last.ok
    /\ last.step = "resolve_tip"
    /\ count_commits_for_repo(last.repo_id) > 0
    /\ last.repo_id \in DOMAIN ingest_state
    /\ ingest_state[last.repo_id].last_error = None

\* ---------------------------------------------------------------------------
\* the entries of summary.errors for commits the walk could not load or
\* upsert_commit refused
FailedCommits(errors) ==
    Cardinality({ k \in 1 .. Len(errors) : errors[k][1] \in {"load", "upsert_commit"} })

\* 1 while the loop is between upsert_commit and the count of the commit
InHand(s) == IF s.pc \in {"files", "patch"} THEN 1 ELSE 0

\* the commits the loop is done with
Accounted(s) ==
    s.summary.commits_indexed + s.summary.commits_already_indexed
        + s.summary.commits_filtered + FailedCommits(s.summary.errors)

\* C36: in every sync_repo that returns Ok each commit the walk yielded is
\* accounted for once, commits_indexed + commits_already_indexed +
\* commits_filtered + (commits whose load or upsert_commit failed) being the
\* number of commits yielded, and commits_indexed is the number of commits
\* rows the sync added. Stated over the steps of the sync: the sum follows the
\* position of the walk, every step adds as many commits rows as it adds to
\* commits_indexed (the commit in hand counted), and the summary returned is
\* the one the loop built over the whole walk.
C36_EveryCommitAccountedOnce ==
    [][ /\ (sync.pc = "idle" /\ sync'.pc # "idle") =>
              /\ Accounted(sync') = 0
              /\ sync'.i = 1
        /\ (sync.pc # "idle" /\ sync'.pc # "idle") =>
              \A id \in {sync.repo.repo_id} :
                 /\ Accounted(sync') = sync'.i - 1
                 /\ count_commits_for_repo(id)' - count_commits_for_repo(id)
                      = (sync'.summary.commits_indexed + InHand(sync'))
                          - (sync.summary.commits_indexed + InHand(sync))
        /\ SyncReturns =>
              /\ last'.ok
              /\ sync.i = Len(GitLog) + 1
              /\ last'.summary.commits_indexed = sync.summary.commits_indexed
              /\ Accounted([summary |-> last'.summary]) = Len(GitLog)
              /\ UNCHANGED commits ]_vars

\* the sum alone: it holds whatever fails
EveryCommitInOneCount ==
    [][ /\ (sync.pc # "idle" /\ sync'.pc # "idle") => Accounted(sync') = sync'.i - 1
        /\ SyncReturns => Accounted([summary |-> last'.summary]) = Len(GitLog) ]_vars

\* ---------------------------------------------------------------------------
\* the Repo record sync_repo is given for a stored repo
RepoOf(id) ==
    [repo_id |-> id, name |-> repos[id].name, author_filter |-> repos[id].author_filter,
     exclude_prefixes |-> repos[id].exclude_prefixes]

\* the commit has the file rows and the patch row sync_repo stores for it
HasFilesAndPatch(id, git_commit) ==
    LET config == effective_config(RepoOf(id), DefaultConfig) IN
    /\ FileRows(id, git_commit.sha) = get_commit_files(git_commit, id, config)
    /\ get_patch_text(git_commit, config) # None => PatchRows(id, git_commit.sha) # {}

\* upsert_commit went through for the commit: its row is stored and indexed
UpsertSucceeded(id, git_commit) ==
    \E r \in CommitRowids(id, git_commit.sha) : r \in FtsRowids

\* a sync_repo has just returned Ok with no message in errors
CleanSyncReturned ==
    /\ last.op = "sync_repo"
    /\ last.ok
    /\ "state_err" \notin DOMAIN last
    /\ last.summary.errors = <<>>

\* C37: a commit whose file list or patch could not be stored during one
\* sync is repaired by a later sync_repo in which no step fails: once a
\* sync_repo without a failing step has returned, every commit of the repo
\* for which upsert_commit succeeded has its commit_files rows and its
\* commit_patches row.
C37_LaterSyncRepairs ==
    CleanSyncReturned =>
        \A k \in 1 .. Len(GitLog) :
            UpsertSucceeded(last.repo_id, GitLog[k])
                => HasFilesAndPatch(last.repo_id, GitLog[k])

\* a sync_repo without a failing step that found nothing stored leaves every
\* commit it indexed with its rows
CleanFirstSyncStoresAll ==
    (CleanSyncReturned /\ last.summary.commits_already_indexed = 0)
    => \A k \in 1 .. Len(GitLog) :
          Stored(last.repo_id, GitLog[k]) => HasFilesAndPatch(last.repo_id, GitLog[k])

CleanFirstSyncWitness ==
    /\ CleanSyncReturned
    /\ last.summary.commits_already_indexed = 0
    /\ last.summary.commits_indexed = 2
    /\ FileRows(last.repo_id, GitLog[1].sha) # <<>>

\* ---------------------------------------------------------------------------
\* SpecBackfillStoreErr: SpecBackfill with store_embedding calls that fail at
\* one of their statements inside embed_pending.

\* Err(e) of store.store_embedding inside embed_pending: the statement at
\* hand fails, the statements already run stay applied (no transaction is
\* open), the guard is dropped, failed += 1 and the loop goes on
EmbedPendingStoreErr(t) ==
    LET c == calls[t] IN
    /\ c.op = "embed_pending"
    /\ c.stage = "store"
    /\ c.summary.failed < MaxFailed
    /\ mutex' = drop_guard(t)
    /\ calls' = SetCall(t, NextOfBatch([c EXCEPT !.summary.failed = @ + 1,
                                                 !.pc = 0, !.loc = 0]))
    /\ last' = [op |-> "store_embedding", arg |-> EmbeddingOf(c.batch[c.i], c.vec),
                ok |-> FALSE, again |-> FALSE, err |-> "Sqlite", at |-> c.pc]
    /\ UNCHANGED <<tables, sync>>

NextBackfillStoreErr ==
    \/ NextBackfill
    \/ EmbedPendingStoreErr(1)

SpecBackfillStoreErr == Init /\ [][NextBackfillStoreErr]_vars

\* the commit has a commit_embeddings row under its commit_embed_map entry
HasVector(repo_id, sha) ==
    \E e \in EmbedIds(repo_id, sha) : e \in DOMAIN commit_embeddings

\* embed_pending was the last call to return, and it returned Ok(summary)
EmbedPendingReturnedOk ==
    /\ calls[1].op = "idle"
    /\ last.op = "embed_pending"
    /\ last.ok

\* C38: when embed_pending returns Ok, every commit of the repo has a
\* commit_embeddings row; no commit is left with a commit_embed_map entry
\* and no vector, also when a store_embedding call failed during the run.
C38_OkBackfillLeavesNoGap ==
    EmbedPendingReturnedOk =>
        \A r \in DOMAIN commits :
            commits[r].repo_id = last.arg.repo_id =>
                HasVector(last.arg.repo_id, commits[r].sha)

\* when embed_pending returns Ok, every commit of the repo has a
\* commit_embed_map entry, with or without a vector under it
OkBackfillLeavesMapEntries ==
    EmbedPendingReturnedOk => PendingOf(last.arg.repo_id) = {}

\* an embed_pending run has returned Ok after a failed store_embedding
OkBackfillAfterFailedStoreWitness ==
    /\ EmbedPendingReturnedOk
    /\ last.summary.failed = 1
    /\ \E r \in DOMAIN commits :
          /\ commits[r].repo_id = last.arg.repo_id
          /\ ~HasVector(last.arg.repo_id, commits[r].sha)

\* ---------------------------------------------------------------------------
\* The number of results of a search with a paths filter and a limit,
\* under SpecSearch.

\* `matched` of the loop over the selected rows: a commit_files row of the
\* commit has a path LIKE %pf% for one of the filters
PathsMatched(r, path_filters) ==
    \E i \in 1..Len(path_filters) :
        \E path \in FilePaths(commits[r].repo_id, commits[r].sha) :
            like(path, like_pat(path_filters[i]))

\* the commits that match the query, the since and repos filters and the
\* paths filter
SearchMatches(query, opts) ==
    { r \in search_rows(query, opts) :
        opts.paths # None => PathsMatched(r, opts.paths[1]) }

\* the limit bound to the statement
SearchLimit(opts) == IF opts.limit = None THEN 50 ELSE opts.limit[1]

\* C39: search with a paths filter and limit L returns min(L, M) results,
\* M being the number of commits that match the query, the since and repos
\* filters and the paths filter.
C39_PathsSearchFillsLimit ==
    \A query \in {{T_a}, {T_b}}, opts \in SearchOptsAsked, tie \in TieOrders :
        opts.paths # None =>
            LET M == Cardinality(SearchMatches(query, opts))
                L == SearchLimit(opts)
            IN Len(search(query, opts, tie)) = (IF L < M THEN L ELSE M)

\* a search returns min(L, M) results when it has no paths filter, and at
\* most as many with one: every result is one of the M commits
SearchCountWithinLimit ==
    \A query \in {{T_a}, {T_b}}, opts \in SearchOptsAsked, tie \in TieOrders :
        LET M == Cardinality(SearchMatches(query, opts))
            L == SearchLimit(opts)
            found == search(query, opts, tie)
        IN /\ Len(found) <= (IF L < M THEN L ELSE M)
           /\ opts.paths = None => Len(found) = (IF L < M THEN L ELSE M)
           /\ (opts.paths # None /\ Cardinality(search_rows(query, opts)) <= L) =>
                Len(found) = M

\* a search with a paths filter and no limit has returned the one commit
\* that touches the path, among two that match the query
SearchCountWitness ==
    \E opts \in SearchOptsAsked, tie \in TieOrders :
        /\ opts.paths # None
        /\ opts.limit = None
        /\ Cardinality(search_rows({T_a}, opts)) = 2
        /\ Cardinality(SearchMatches({T_a}, opts)) = 1
        /\ Len(search({T_a}, opts, tie)) = 1

====
